---- MODULE Spec2Model ----
(***************************************************************************)
(* A model of the symbolic-regression engine (backend/gp/engine.py), of    *)
(* the session routes that drive it (backend/api/routes/evolution.py) and  *)
(* of the checkpoint store (backend/gp/checkpoint.py).                     *)
(*                                                                         *)
(* Numbers.  Dataset values and predictions are integers.  Fitness and MSE *)
(* are fixed-point in units of ten (v stands for 10*v), so that the cap    *)
(* 1e10 and the oversize penalty 1e6 are representable: FIT_CAP = 1e9 tens *)
(* and OVERSIZE_PENALTY = 1e5 tens.  R-squared is an exact fraction.       *)
(*                                                                         *)
(* Trees are DEAP PrimitiveTrees: sequences of node names in prefix order. *)
(* Random draws are nondeterministic choices from bounded samples.         *)
(***************************************************************************)
EXTENDS Integers, Sequences, FiniteSets, TLC

\* ------------------------------------------------------------------ bounds
\* Largest generation index the loop is followed to.
MaxGen == 2
\* Variation points (crossover and mutation indexes) are drawn from
\* 0 .. MaxPoint (crossover from 1 .. MaxPoint).
MaxPoint == 1
\* genGrow places at most this many terminals above the sampled height.
MaxEarlyTerminals == 0
\* Checkpoints are stamped with a second of 1 .. MaxStamp.
MaxStamp == 1
\* A script runs evolve() at most this many times.
MaxRuns == 2
\* updates of the simplest-good hall of fame are followed while it holds
\* fewer members than this
MaxSimplestLen == 11
\* The checkpoint manager's clock shows a second of 1 .. MaxSecond.
MaxSecond == 2
\* The checkpoint manager is followed for this many saves of a session.
MaxSaves == 2
\* cleanup_old_checkpoints is called with a keep_count of 0 .. MaxKeep.
MaxKeep == 2
\* Column names have at most MaxNameLen characters.
MaxNameLen == 2
\* A session's stream has at most MaxConnections websocket clients.
MaxConnections == 3
\* Selection is followed on populations of MaxSelectPop individuals.
MaxSelectPop == 3
\* The parsimonious pick is taken from halls of at most MaxBestHall members.
MaxBestHall == 2
\* The final Pareto front is computed over halls of fame of 1 .. MaxFrontHall
\* members.
MaxFrontHall == 3
\* An input matrix has at most this many rows.
MaxRows == 2
\* Saves of a session that raise are followed this many times.
MaxSaveFailures == 1
\* A start request names at most this many feature columns.
MaxFeatures == 2
\* Floats are kept to this many significant decimal digits.
DIGITS == 3

\* ------------------------------------------------------- program constants
MAX_TREE_SIZE == 20
\* test_evolution.py: GPEngine(..., generations=10, ...)
GENERATIONS == 10
MAX_TREE_DEPTH == 4
MAX_POPULATION == 500
HOF_MAXSIZE == 10
\* 1e10, in tens
FIT_CAP == 1000000000
\* 1e6, in tens
OVERSIZE_PENALTY == 100000
\* the schedule 1 + gen/200, capped at 5.0, in 200ths
PARSIMONY_PERIOD == 200
PARSIMONY_FACTOR_CAP == 1000

\* largest magnitude the arithmetic below saturates at (2e10, in tens)
SAT == 2000000000

Min(a, b) == IF a <= b THEN a ELSE b
Max(a, b) == IF a >= b THEN a ELSE b
Abs(a) == IF a < 0 THEN -a ELSE a

\* ------------------------------------------------------------------- trees
\* primitives.py OPERATOR_MAP / FUNCTION_MAP: name and arity of a node; the
\* terminals are ARG0 (renamed "x") and ephemeral constants ("c1" is 1).
Arity(node) ==
    CASE node \in {"add", "sub"} -> 2
      [] node \in {"abs"} -> 1
      [] OTHER -> 0

\* create_primitive_set: the primitives a configuration's operator and
\* function lists register, in order.
PrimitiveNames(operators, functions) ==
    LET opName(o) == IF o = "+" THEN "add" ELSE IF o = "-" THEN "sub" ELSE "none"
        fnName(f) == IF f = "abs" THEN "abs" ELSE "none"
    IN  ({opName(operators[i]) : i \in 1..Len(operators)}
           \cup {fnName(functions[i]) : i \in 1..Len(functions)})
          \ {"none"}

\* len(individual)
Size(tree) == Len(tree)

\* PrimitiveTree.searchSubtree(begin): the end (exclusive, 0-based) of the
\* subtree rooted at 0-based index begin.
RECURSIVE SubtreeEnd(_, _, _)
SubtreeEnd(tree, end, total) ==
    IF total = 0 THEN end
    ELSE SubtreeEnd(tree, end + 1, total + Arity(tree[end + 1]) - 1)

SearchSubtreeEnd(tree, begin) ==
    SubtreeEnd(tree, begin + 1, Arity(tree[begin + 1]))

\* individual[slice_] = expr : the subtree at 0-based index replaced by expr
ReplaceSubtree(tree, index, expr) ==
    LET end == SearchSubtreeEnd(tree, index)
    IN  SubSeq(tree, 1, index) \o expr \o SubSeq(tree, end + 1, Len(tree))

Subtree(tree, index) ==
    SubSeq(tree, index + 1, SearchSubtreeEnd(tree, index))

\* gp.genFull / gp.genGrow (deap.gp.generate): the expressions of a sampled
\* height, built from the registered primitives and terminals.  `early` is
\* the number of terminals genGrow may still place above the sampled height
\* (depth >= min_ and random() < terminalRatio); genFull has early = 0.
\* The result is a set of <<expression, early terminals left>>.
RECURSIVE Generate(_, _, _, _, _, _)
Generate(prims, terms, height, depth, min_, early) ==
    LET leaves == {<<(<<t>>), early>> : t \in terms}
        cut    == IF depth >= min_ /\ depth < height /\ early > 0
                  THEN {<<(<<t>>), early - 1>> : t \in terms} ELSE {}
        grown  == IF depth >= height THEN {}
                  ELSE UNION {
                    IF Arity(p) = 1
                    THEN {<<(<<p>>) \o a[1], a[2]>> :
                            a \in Generate(prims, terms, height, depth + 1, min_, early)}
                    ELSE UNION {
                           {<<(<<p>>) \o a[1] \o b[1], b[2]>> :
                              b \in Generate(prims, terms, height, depth + 1, min_, a[2])} :
                           a \in Generate(prims, terms, height, depth + 1, min_, early)}
                    : p \in prims}
    IN  IF depth >= height THEN leaves ELSE grown \cup cut

GenFull(prims, terms, min_, max_) ==
    UNION {{g[1] : g \in Generate(prims, terms, h, 0, min_, 0)} : h \in min_..max_}

GenGrow(prims, terms, min_, max_) ==
    UNION {{g[1] : g \in Generate(prims, terms, h, 0, min_, MaxEarlyTerminals)} :
             h \in min_..max_}

\* gp.genHalfAndHalf: one of the two methods
GenHalfAndHalf(prims, terms, min_, max_) ==
    GenFull(prims, terms, min_, max_) \cup GenGrow(prims, terms, min_, max_)

\* The terminal draws of one generated expression agree (one sampled
\* terminal per expression); mixed expressions arise by variation.
Expressions(prims, terms, min_, max_, grow) ==
    UNION {IF grow THEN GenHalfAndHalf(prims, {t}, min_, max_)
                   ELSE GenFull(prims, {t}, min_, max_) : t \in terms}

\* -------------------------------------------------------------- evaluation
\* The dataset after train_test_split (engine.py:164): y = 2x.
X_train == <<10, 20, 30, 40, 50>>
y_train == <<20, 40, 60, 80, 100>>
X_test == <<60, 70>>
y_test == <<120, 140>>

\* primitives.py safe_add, safe_sub, abs on finite values; the terminal "x"
\* is the argument, "c1" the ephemeral constant 1.
ApplyPrimitive(node, args) ==
    CASE node = "add" -> args[1] + args[2]
      [] node = "sub" -> args[1] - args[2]
      [] node = "abs" -> Abs(args[1])

\* the element of a one-element set: {F(v) : v \in {e}} evaluates e once
The(S) == CHOOSE v \in S : TRUE

\* one node of the stack walk: a terminal is pushed, a primitive replaces
\* its arguments on top of the stack by its value
Pushed(node, stack, x) ==
    LET n == Arity(node)
    IN  IF n = 0 THEN <<(IF node = "x" THEN x ELSE 1)>> \o stack
        ELSE <<ApplyPrimitive(node, SubSeq(stack, 1, n))>>
               \o SubSeq(stack, n + 1, Len(stack))

\* the stack after the nodes tree[lo .. hi] were walked from the last to the
\* first, the upper half before the lower
RECURSIVE StackAfter(_, _, _, _, _)
StackAfter(tree, lo, hi, stack, x) ==
    IF lo > hi THEN stack
    ELSE IF lo = hi THEN Pushed(tree[lo], stack, x)
    ELSE The({StackAfter(tree, lo, (lo + hi) \div 2, upper, x) :
                 upper \in {StackAfter(tree, (lo + hi) \div 2 + 1, hi, stack, x)}})

\* gp.compile + call: the value of the prefix expression at x, by a stack
\* walk from node i to the first.
EvalFrom(tree, i, stack, x) == StackAfter(tree, 1, i, stack, x)[1]

\* fitness.get_predictions_vectorized: one prediction per row.  Every value
\* of this dataset domain is finite and far below 1e10, where the final
\* where/clip leaves it unchanged.
Predictions(tree, X) == [i \in 1..Len(X) |-> EvalFrom(tree, Len(tree), <<>>, X[i])]

RECURSIVE SumSeq(_)
SumSeq(s) == IF s = <<>> THEN 0 ELSE Head(s) + SumSeq(Tail(s))

SquaredErrors(y, pred) ==
    [i \in 1..Len(y) |-> (y[i] - pred[i]) * (y[i] - pred[i])]

\* fitness.calculate_mse, in tens
calculate_mse(y, pred) ==
    IF Len(pred) = 0 THEN FIT_CAP
    ELSE SumSeq(SquaredErrors(y, pred)) \div (10 * Len(y))

\* fitness.calculate_r_squared as an exact fraction <<num, den>>, den > 0
calculate_r_squared(y, pred) ==
    IF Len(y) < 2 THEN <<0, 1>>
    ELSE LET ss_res == SumSeq(SquaredErrors(y, pred))
             total  == SumSeq(y)
             n      == Len(y)
             \* sum (y - mean)^2 = (n * sum y^2 - (sum y)^2) / n
             ss_tot_n == n * SumSeq([i \in 1..n |-> y[i] * y[i]]) - total * total
         IN  IF ss_tot_n = 0 THEN (IF ss_res = 0 THEN <<1, 1>> ELSE <<0, 1>>)
             ELSE IF n * ss_res >= ss_tot_n THEN <<0, ss_tot_n>>
             ELSE <<ss_tot_n - n * ss_res, ss_tot_n>>

\* r >= a/b for fractions r = <<num, den>>
FracGe(r, a, b) == r[1] * b >= a * r[2]

\* floor(sqrt(v)) by bisection
RECURSIVE ISqrtIn(_, _, _)
ISqrtIn(v, lo, hi) ==
    IF lo >= hi THEN lo
    ELSE LET mid == (lo + hi + 1) \div 2
         IN  IF mid * mid <= v THEN ISqrtIn(v, mid, hi) ELSE ISqrtIn(v, lo, mid - 1)

\* complexity ** 1.5, in hundredths
Pow15(c) == IF c <= 59 THEN ISqrtIn(c * c * c * 10000, 0, 46000)
            ELSE 100 * ISqrtIn(c * c * c, 0, 46000)

\* a * b / d for b, d > 0, saturating at +-SAT
MulDivSat(a, b, d) ==
    IF Abs(a) <= SAT \div b THEN (a * b) \div d
    ELSE LET q == a \div d
         IN  IF Abs(q) <= SAT \div b THEN q * b
             ELSE IF a < 0 THEN -SAT ELSE SAT

\* ----------------------------------------------------------------- fitness
\* An individual: a tree with its fitness (fitness.valid, fitness.values[0]).
Individual(tree) == [tree |-> tree, valid |-> FALSE, fit |-> 0]

WithFitness(ind, f) == [ind EXCEPT !.valid = TRUE, !.fit = f]

\* del individual.fitness.values
Invalidate(ind) == [ind EXCEPT !.valid = FALSE, !.fit = 0]

\* The complexity penalty adaptive_parsimony * complexity ** 1.5, in tens;
\* adaptive_parsimony is base * factor / 200.
ComplexityPenalty(base, factor, complexity) ==
    MulDivSat(base, factor * Pow15(complexity), PARSIMONY_PERIOD * 1000)

\* the final clamp of _evaluate_individual (engine.py:285)
ClampFitness(fitness) == IF fitness > FIT_CAP THEN FIT_CAP ELSE fitness

\* GPEngine._evaluate_individual, in tens
_evaluate_individual(tree, base, factor) ==
    LET mse == calculate_mse(y_train, Predictions(tree, X_train))
        complexity == Size(tree)
        fitness == mse + ComplexityPenalty(base, factor, complexity)
        penalised == IF complexity > MAX_TREE_SIZE
                     THEN fitness + OVERSIZE_PENALTY ELSE fitness
    IN  ClampFitness(penalised)

\* An evaluation step that evaluates nothing
Mut_C23_SkipEvaluation(inds, base, factor) == inds

\* the evaluation step of the loop: every individual with invalid fitness
\* is evaluated, the others keep their value
EvaluateInvalid(inds, base, factor) ==
    [i \in 1..Len(inds) |->
        IF inds[i].valid THEN inds[i]
        ELSE WithFitness(inds[i], _evaluate_individual(inds[i].tree, base, factor))]

\* GPEngine._update_adaptive_parsimony: the factor 1 + gen/200 capped at
\* 5.0, in 200ths; left alone at generation 0
_update_adaptive_parsimony(factor, generation) ==
    IF generation > 0
    THEN Min(PARSIMONY_PERIOD + generation, PARSIMONY_FACTOR_CAP)
    ELSE factor

\* --------------------------------------------------------------- selection
\* |f - best| < epsilon * max(1, |best|) with epsilon = 0.05, on tens
WithinEpsilon(f, best) ==
    IF best = 0 THEN f = best
    ELSE Abs(f - best) <= (Abs(best) - 1) \div 20

\* A tournament won by the fittest aspirant whatever its size
Mut_C32_FittestWins(individuals, aspirants) ==
    {i \in aspirants : \A j \in aspirants : individuals[i].fit <= individuals[j].fit}

\* One tournament of sel_lexicographic over the sampled aspirants (a set of
\* population indexes): the possible winners.  The aspirants are sorted by
\* fitness (stable in the random sample order), so among the shortest
\* individuals within epsilon of the best, any one of least fitness can
\* come first.
TournamentWinners(individuals, aspirants) ==
    LET best == CHOOSE f \in {individuals[i].fit : i \in aspirants} :
                    \A i \in aspirants : f <= individuals[i].fit
        similar == {i \in aspirants : WithinEpsilon(individuals[i].fit, best)}
        shortest == {i \in similar :
                        \A j \in similar : Size(individuals[i].tree) <= Size(individuals[j].tree)}
    IN  {i \in shortest : \A j \in shortest : individuals[i].fit <= individuals[j].fit}

\* random.sample(individuals, min(tournsize, len(individuals))) as a set
Samples(individuals, tournsize) ==
    {a \in SUBSET (1..Len(individuals)) :
        Cardinality(a) = Min(tournsize, Len(individuals))}

\* sel_lexicographic(individuals, k): the index sequences it can return
sel_lexicographic(individuals, k, tournsize) ==
    LET winners == UNION {TournamentWinners(individuals, a) :
                            a \in Samples(individuals, tournsize)}
    IN  [1..k -> winners]

\* ------------------------------------------------------------ hall of fame
\* tools.HallOfFame: items, best first.  insert places the item after the
\* strictly better members (bisect_right on the reversed keys).
HofInsert(hof, item) ==
    LET better == Cardinality({i \in 1..Len(hof) : hof[i].fit < item.fit})
    IN  SubSeq(hof, 1, better) \o <<item>> \o SubSeq(hof, better + 1, Len(hof))

\* HallOfFame.remove(-1)
HofRemoveLast(hof) == SubSeq(hof, 1, Len(hof) - 1)

\* An acceptance test that lets a candidate as good as the worst member in
Mut_C10_AcceptsEqual(hof, maxsize, ind) ==
    /\ (ind.fit <= hof[Len(hof)].fit \/ Len(hof) < maxsize)
    /\ \A i \in 1..Len(hof) : hof[i].tree # ind.tree

\* the acceptance test of HallOfFame.update for one individual
HofAccepts(hof, maxsize, ind) ==
    /\ (ind.fit < hof[Len(hof)].fit \/ Len(hof) < maxsize)
    /\ \A i \in 1..Len(hof) : hof[i].tree # ind.tree

\* HallOfFame.update(population), one individual at a time
RECURSIVE HofUpdateFrom(_, _, _, _)
HofUpdateFrom(hof, maxsize, population, i) ==
    IF i > Len(population) THEN hof
    ELSE LET ind == population[i]
             next == IF Len(hof) = 0 /\ maxsize # 0
                     THEN HofInsert(hof, population[1])
                     ELSE IF HofAccepts(hof, maxsize, ind)
                     THEN HofInsert(IF Len(hof) >= maxsize THEN HofRemoveLast(hof)
                                    ELSE hof, ind)
                     ELSE hof
         IN  HofUpdateFrom(next, maxsize, population, i + 1)

HofUpdate(hof, maxsize, population) == HofUpdateFrom(hof, maxsize, population, 1)

\* train R-squared of a tree
TrainR2(tree) == calculate_r_squared(y_train, Predictions(tree, X_train))
TestR2(tree) == calculate_r_squared(y_test, Predictions(tree, X_test))

\* An update of the simplest-good hall without the R-squared threshold
RECURSIVE Mut_C11_NoThreshold(_, _, _)
Mut_C11_NoThreshold(simplest_hof, population, i) ==
    IF i > Len(population) THEN simplest_hof
    ELSE LET ind == population[i]
             next == IF ~ind.valid THEN simplest_hof
                     ELSE IF Len(simplest_hof) < HOF_MAXSIZE
                     THEN HofInsert(simplest_hof, ind)
                     ELSE IF Size(ind.tree) < Size(simplest_hof[Len(simplest_hof)].tree)
                     THEN HofInsert(simplest_hof, ind)
                     ELSE simplest_hof
         IN  Mut_C11_NoThreshold(next, population, i + 1)

\* GPEngine._update_simplest_hof
RECURSIVE UpdateSimplestFrom(_, _, _)
UpdateSimplestFrom(simplest_hof, population, i) ==
    IF i > Len(population) THEN simplest_hof
    ELSE LET ind == population[i]
             next == IF ~ind.valid THEN simplest_hof
                     ELSE IF ~FracGe(TrainR2(ind.tree), 4, 5) THEN simplest_hof
                     ELSE IF Len(simplest_hof) < HOF_MAXSIZE
                     THEN HofInsert(simplest_hof, ind)
                     ELSE IF Size(ind.tree) < Size(simplest_hof[Len(simplest_hof)].tree)
                     THEN HofInsert(simplest_hof, ind)
                     ELSE simplest_hof
         IN  UpdateSimplestFrom(next, population, i + 1)

_update_simplest_hof(population, simplest_hof) ==
    UpdateSimplestFrom(simplest_hof, population, 1)

\* A pick that takes the simplest-good hall's top member whatever its size
Mut_C31_IgnoresSize(hof, simplest_hof, X, y) ==
    IF Len(simplest_hof) = 0 THEN hof[1]
    ELSE LET r2_best == calculate_r_squared(y, Predictions(hof[1].tree, X))
             r2_simple == calculate_r_squared(y, Predictions(simplest_hof[1].tree, X))
         IN  IF r2_simple[1] * 100 >= 95 * r2_best[1] THEN simplest_hof[1] ELSE hof[1]

\* GPEngine._get_best_parsimonious for an engine whose training rows are
\* X, y.  Its try block cannot raise: the primitives and the metrics catch
\* every exception themselves.
BestParsimoniousOn(hof, simplest_hof, X, y) ==
    IF Len(simplest_hof) = 0 THEN hof[1]
    ELSE LET best == hof[1]
             simplest == simplest_hof[1]
             r2_best == calculate_r_squared(y, Predictions(best.tree, X))
             r2_simple == calculate_r_squared(y, Predictions(simplest.tree, X))
         IN  \* r2_simple >= r2_best * 0.95 (both fractions are over the
             \* same y, so they share the denominator)
             IF /\ r2_simple[1] * 100 >= 95 * r2_best[1]
                /\ Size(simplest.tree) < Size(best.tree)
             THEN simplest ELSE best

\* GPEngine._get_best_parsimonious
_get_best_parsimonious(hof, simplest_hof) ==
    BestParsimoniousOn(hof, simplest_hof, X_train, y_train)

\* --------------------------------------------------------------- variation
\* gp.cxOnePoint at 0-based points index1, index2 (never the root): the
\* two trees after the in-place swap of the subtrees
cxOnePoint(tree1, tree2, index1, index2) ==
    IF Len(tree1) < 2 \/ Len(tree2) < 2 THEN <<tree1, tree2>>
    ELSE <<ReplaceSubtree(tree1, index1, Subtree(tree2, index2)),
           ReplaceSubtree(tree2, index2, Subtree(tree1, index1))>>

\* gp.mutUniform at a 0-based point with a generated expression
mutUniform(tree, index, expr) == ReplaceSubtree(tree, index, expr)

\* gp.staticLimit(key=len, max_value): what the decorated operator RETURNS
\* for the given parents (copied before the call) and produced children:
\* each oversized child is replaced, in the returned list, by a copy of one
\* of the parents.
staticLimit(parents, children, max_value) ==
    {r \in [1..Len(children) -> {children[i] : i \in 1..Len(children)}
                                  \cup {parents[i] : i \in 1..Len(parents)}] :
        \A i \in 1..Len(children) :
            IF Len(children[i]) > max_value
            THEN \E j \in 1..Len(parents) : r[i] = parents[j]
            ELSE r[i] = children[i]}

\* toolbox.mate(child1, child2) as the loop calls it (engine.py:459): the
\* operator works in place and the loop drops the returned list, so the
\* offspring slots hold the trees as cxOnePoint left them.
toolbox_mate(tree1, tree2, index1, index2) ==
    LET children == cxOnePoint(tree1, tree2, index1, index2)
        returned == staticLimit(<<tree1, tree2>>, children, MAX_TREE_SIZE)
    IN  children

\* toolbox.mutate(mutant) as the loop calls it (engine.py:466)
toolbox_mutate(tree, index, expr) ==
    LET children == <<mutUniform(tree, index, expr)>>
        returned == staticLimit(<<tree>>, children, MAX_TREE_SIZE)
    IN  children[1]

\* the points a variation operator may draw in a tree
CxPoints(tree) == 1..Min(Len(tree) - 1, MaxPoint)
MutPoints(tree) == 0..Min(Len(tree) - 1, MaxPoint)

\* ----------------------------------------------------------- configuration
Sessions == {"s1", "s2"}

NoConfig == [driver |-> "none"]

\* A configuration: the constructor arguments of GPEngine and the driver
\* that owns the engine ("script": a caller of the engine API such as
\* test_evolution.py; "route": run_evolution).  mutation / crossover tell
\* whether the probability is positive.
Config(driver, population_size, max_depth, parsimony, mutation, crossover, tournament) ==
    [driver |-> driver, population_size |-> population_size, max_depth |-> max_depth,
     parsimony_coefficient |-> parsimony, mutation |-> mutation,
     crossover |-> crossover, tournament_size |-> tournament,
     operators |-> <<"+">>, functions |-> <<>>]

\* the "config" entry of get_checkpoint_state: the engine's settings, as
\* clamped by __init__
Settings(cfg) ==
    [population_size |-> Min(cfg.population_size, MAX_POPULATION),
     max_depth |-> Min(cfg.max_depth, MAX_TREE_DEPTH),
     parsimony_coefficient |-> cfg.parsimony_coefficient,
     mutation |-> cfg.mutation, crossover |-> cfg.crossover,
     tournament_size |-> cfg.tournament_size,
     operators |-> cfg.operators, functions |-> cfg.functions]

\* GPEngine.__init__: the clamped settings
PopulationSize(cfg) == Min(cfg.population_size, MAX_POPULATION)
MaxDepth(cfg) == Min(cfg.max_depth, MAX_TREE_DEPTH)

Primitives(cfg) == PrimitiveNames(cfg.operators, cfg.functions)
Terminals == {"x", "c1"}

\* toolbox.individual(): genHalfAndHalf(min_=1, max_=max_depth)
toolbox_individual(cfg) == Expressions(Primitives(cfg), Terminals, 1, MaxDepth(cfg), TRUE)

\* toolbox.expr_mut: genFull(min_=0, max_=1)
toolbox_expr_mut(cfg) == Expressions(Primitives(cfg), Terminals, 0, 1, FALSE)

\* ------------------------------------------------------------------- state
VARIABLES
    config,              \* per session: the configuration (an input)
    evolution_sessions,  \* routes: the session registry
    running_engines,     \* routes: the sessions with a registered engine
    pc,                  \* per session: where its task stands
    engine,              \* per session: the GPEngine object's fields
    sent,                \* per session: the messages handed to the observer
    result,              \* per session: what evolve() returned (or, where a
                         \* primitive is called on its own, what it returned)
    held,                \* per session: a snapshot a client got from
                         \* get_checkpoint_state() and keeps
    store,               \* the checkpoint store: the saved checkpoints
    ghost                \* per session: history of the run (not program state)

vars == <<config, evolution_sessions, running_engines, pc, engine, sent, result,
          held, store, ghost>>

NoSession == [status |-> "none"]
NoEngine == [constructed |-> FALSE]
NoResult == [status |-> "none"]
NoSnapshot == [taken |-> FALSE]

\* restored_generation / restored_population: what the engine was restored
\* with (the population until the first generation has run);
\* iterations: loop passes of the current evolve(); first_index and
\* first_from_restored: the index of its first pass and whether that pass
\* selected from the restored population; runs: calls of evolve();
\* stopped_at: the loop passes made when stop() was first called;
\* captured_*: the content of the held snapshot when it was taken;
\* callback_failures: the calls of the observer that raised, failed_at: the
\* generation of the latest one; failed_id: the checkpoint id of the
\* session's latest save that raised after writing to a file of the id,
\* until a save of that id succeeds; save_failures: the saves of the
\* session that raised; saved_ids: the ids that the checkpoint manager
\* returned to the session's saves, in order.
NoGhost == [restored_generation |-> -1, restored_population |-> <<>>,
            iterations |-> 0, first_index |-> 0, first_from_restored |-> FALSE,
            runs |-> 0, stopped_at |-> -1,
            captured_population |-> <<>>, captured_hof |-> <<>>,
            callback_failures |-> 0, failed_at |-> 0, failed_id |-> <<>>,
            save_failures |-> 0, saved_ids |-> <<>>]

\* The positions at which a task is suspended (or not running): only there
\* can another task or handler of the single-threaded event loop run.
AwaitPcs == {"none", "scheduled", "callback", "yield", "final_send", "done"}
Idle == \A s \in Sessions : pc[s] \in AwaitPcs

\* the trees of a list of individuals
Trees(inds) == [i \in 1..Len(inds) |-> inds[i].tree]

\* ----------------------------------------------------- the generation loop
\* A selection that returns one individual fewer
Mut_C8_SelectFewer(population, tournsize) ==
    {[i \in 1..(Len(population) - 1) |-> population[sel[i]]] :
        sel \in sel_lexicographic(population, Len(population), tournsize)}

\* offspring = list(map(toolbox.clone, toolbox.select(population, len)))
Selected(population, tournsize) ==
    {[i \in 1..Len(population) |-> population[sel[i]]] :
        sel \in sel_lexicographic(population, Len(population), tournsize)}

\* One pair of the crossover loop: left alone when random() >= crossover_prob,
\* else mated in place and both fitnesses deleted.
CrossoverPair(a, b, crossover) ==
    {<<a, b>>} \cup
    (IF ~crossover THEN {}
     ELSE IF Len(a.tree) < 2 \/ Len(b.tree) < 2
     THEN {<<Invalidate(a), Invalidate(b)>>}
     ELSE {LET children == toolbox_mate(a.tree, b.tree, i1, i2)
           IN  <<Individual(children[1]), Individual(children[2])>> :
              i1 \in CxPoints(a.tree), i2 \in CxPoints(b.tree)})

\* for child1, child2 in zip(offspring[::2], offspring[1::2])
RECURSIVE CrossoverFrom(_, _, _)
CrossoverFrom(offspring, k, crossover) ==
    IF 2 * k > Len(offspring) THEN {offspring}
    ELSE UNION {CrossoverFrom([offspring EXCEPT ![2 * k - 1] = pair[1], ![2 * k] = pair[2]],
                              k + 1, crossover) :
                  pair \in CrossoverPair(offspring[2 * k - 1], offspring[2 * k], crossover)}

\* A mutation that leaves the parent's fitness on the mutant
Mut_C29_KeepsFitness(ind, mutation, exprs) ==
    {ind} \cup
    (IF ~mutation THEN {}
     ELSE {[ind EXCEPT !.tree = toolbox_mutate(ind.tree, index, expr)] :
              index \in MutPoints(ind.tree), expr \in exprs})

\* One step of the mutation loop
MutateOne(ind, mutation, exprs) ==
    {ind} \cup
    (IF ~mutation THEN {}
     ELSE {Individual(toolbox_mutate(ind.tree, index, expr)) :
              index \in MutPoints(ind.tree), expr \in exprs})

RECURSIVE MutateFrom(_, _, _, _)
MutateFrom(offspring, i, mutation, exprs) ==
    IF i > Len(offspring) THEN {offspring}
    ELSE UNION {MutateFrom([offspring EXCEPT ![i] = m], i + 1, mutation, exprs) :
                  m \in MutateOne(offspring[i], mutation, exprs)}

\* GPEngine._prune_population: every oversized individual is replaced by a
\* new toolbox.individual()
_prune_one(ind, fresh) ==
    IF Size(ind.tree) > MAX_TREE_SIZE THEN {Individual(t) : t \in fresh} ELSE {ind}

RECURSIVE PruneFrom(_, _, _)
PruneFrom(population, i, fresh) ==
    IF i > Len(population) THEN {population}
    ELSE UNION {PruneFrom([population EXCEPT ![i] = r], i + 1, fresh) :
                  r \in _prune_one(population[i], fresh)}

_prune_population(population, fresh) == PruneFrom(population, 1, fresh)

\* An update that reports a generation index that does not advance
Mut_C4_StaleGeneration(generation, best) ==
    [type |-> "generation_update", generation |-> 1,
     best_equation |-> best.tree, best_fitness |-> best.fit]

\* the update handed to the observer (engine.py:531)
GenerationUpdate(generation, best) ==
    [type |-> "generation_update", generation |-> generation,
     best_equation |-> best.tree, best_fitness |-> best.fit]

\* GPEngine._calculate_pareto_front: the members sorted by complexity (a
\* stable sort), scanned keeping those that strictly raise the best test
\* R-squared so far
RECURSIVE SortByComplexity(_)
SortByComplexity(inds) ==
    IF Len(inds) = 0 THEN <<>>
    ELSE LET least == CHOOSE i \in 1..Len(inds) :
                        /\ \A j \in 1..Len(inds) : Size(inds[i].tree) <= Size(inds[j].tree)
                        /\ \A j \in 1..(i - 1) : Size(inds[j].tree) > Size(inds[i].tree)
         IN  <<inds[least]>> \o
             SortByComplexity(SubSeq(inds, 1, least - 1) \o SubSeq(inds, least + 1, Len(inds)))

RECURSIVE ParetoScanOn(_, _, _, _, _)
ParetoScanOn(candidates, i, front, X, y) ==
    IF i > Len(candidates) THEN front
    ELSE LET r2 == calculate_r_squared(y, Predictions(candidates[i].tree, X))
             improves == \A k \in 1..Len(front) :
                            LET b == calculate_r_squared(y, Predictions(front[k].tree, X))
                            IN  r2[1] * b[2] > b[1] * r2[2]
         IN  ParetoScanOn(candidates, i + 1,
                          IF improves THEN Append(front, candidates[i]) ELSE front,
                          X, y)

\* the scan over the engine's own test rows
ParetoScan(candidates, i, front) == ParetoScanOn(candidates, i, front, X_test, y_test)

_calculate_pareto_front(hof) == ParetoScan(SortByComplexity(hof), 1, <<>>)

\* ------------------------------------------------------------ engine steps
\* GPEngine.__init__ (engine.py:141-193)
NewEngine ==
    [constructed |-> TRUE, is_running |-> FALSE, should_stop |-> FALSE,
     current_generation |-> 0, adaptive_parsimony |-> PARSIMONY_PERIOD,
     population |-> <<>>, hof |-> <<>>, simplest_hof |-> <<>>,
     generation_stats |-> <<>>]

\* GPEngine.get_checkpoint_state: the dictionary holds the engine's own
\* population list, hall of fame and statistics list (references, not
\* copies).  `alias` says that the object is still the one the engine works
\* on; `value` is the content of an object the engine has let go of.  The
\* statistics list is never rebound by the engine, so it is always shared.
get_checkpoint_state(e, cfg) ==
    [taken |-> TRUE, generation |-> e.current_generation,
     population |-> [alias |-> TRUE, value |-> <<>>],
     hall_of_fame |-> [alias |-> TRUE, value |-> <<>>],
     adaptive_parsimony |-> e.adaptive_parsimony,
     config |-> Settings(cfg)]

\* what a snapshot's population / hall of fame / statistics hold now
SnapshotPopulation(snapshot, e) ==
    IF snapshot.population.alias THEN e.population ELSE snapshot.population.value
SnapshotHof(snapshot, e) ==
    IF snapshot.hall_of_fame.alias THEN e.hof ELSE snapshot.hall_of_fame.value
SnapshotStats(snapshot, e) == e.generation_stats

\* evolve() binds new list objects: a snapshot that shared the old ones
\* keeps them, with the content they had
Detach(snapshot, e) ==
    IF ~snapshot.taken THEN snapshot
    ELSE [snapshot EXCEPT
            !.population = [alias |-> FALSE, value |-> SnapshotPopulation(snapshot, e)],
            !.hall_of_fame = [alias |-> FALSE, value |-> SnapshotHof(snapshot, e)]]

\* pickle.dump of a snapshot (CheckpointManager.save_checkpoint): the
\* content at the time of the call
Pickled(snapshot, e) ==
    [generation |-> snapshot.generation,
     population |-> SnapshotPopulation(snapshot, e),
     hall_of_fame |-> SnapshotHof(snapshot, e),
     generation_stats |-> SnapshotStats(snapshot, e),
     adaptive_parsimony |-> snapshot.adaptive_parsimony,
     config |-> snapshot.config]

\* GPEngine.restore_from_checkpoint
restore_from_checkpoint(e, checkpoint) ==
    [e EXCEPT !.current_generation = checkpoint.generation,
              !.population = checkpoint.population,
              !.hof = checkpoint.hall_of_fame,
              !.generation_stats = checkpoint.generation_stats,
              !.adaptive_parsimony = checkpoint.adaptive_parsimony]

\* evolve(), lines 406-410: the fields reset on entry
EvolveReset(e) ==
    [e EXCEPT !.is_running = TRUE, !.should_stop = FALSE,
              !.current_generation = 0, !.adaptive_parsimony = PARSIMONY_PERIOD]

\* evolve(), lines 415-433: a new population, evaluated, and two new halls
\* of fame updated from it
InitialPopulations(cfg) ==
    [1..PopulationSize(cfg) -> {Individual(t) : t \in toolbox_individual(cfg)}]

EvolveInit(e, cfg, fresh) ==
    LET population == EvaluateInvalid(fresh, cfg.parsimony_coefficient,
                                      e.adaptive_parsimony)
    IN  [e EXCEPT !.population = population,
                  !.hof = HofUpdate(<<>>, HOF_MAXSIZE, population),
                  !.simplest_hof = _update_simplest_hof(population, <<>>)]

\* The configurations a script constructs its engine with (the parsimony
\* coefficient in units): one individual of a requested depth above the
\* clamp and no variation; two individuals of depth one that are mated,
\* under a negative coefficient; one individual of depth one that is mutated.
ScriptConfigs ==
    {Config("script", 1, 5, 100, FALSE, FALSE, 7),
     Config("script", 2, 1, -100, FALSE, TRUE, 7),
     Config("script", 1, 1, 100, TRUE, FALSE, 7)}

\* A script that owns an engine constructs it (test_evolution.py:34).
Construct(s) ==
    /\ s = "s1"
    /\ pc[s] = "none"
    /\ \E cfg \in ScriptConfigs : config' = [config EXCEPT ![s] = cfg]
    /\ engine' = [engine EXCEPT ![s] = NewEngine]
    /\ pc' = [pc EXCEPT ![s] = "constructed"]
    /\ UNCHANGED <<evolution_sessions, running_engines, sent, result, held,
                   store, ghost>>

\* evolve() from its entry to the first test of the loop condition
EvolveStart(s) ==
    /\ pc[s] = "constructed"
    /\ \E fresh \in InitialPopulations(config[s]) :
          engine' = [engine EXCEPT ![s] = EvolveInit(EvolveReset(engine[s]), config[s], fresh)]
    /\ held' = [held EXCEPT ![s] = Detach(held[s], engine[s])]
    /\ ghost' = [ghost EXCEPT ![s].iterations = 0, ![s].runs = @ + 1]
    /\ pc' = [pc EXCEPT ![s] = "loop"]
    /\ UNCHANGED <<config, evolution_sessions, running_engines, sent, result, store>>

\* The generation index the loop of a configuration is followed to: one past
\* the `generations` argument where the caller gave one (GPEngine.__init__
\* takes it into **kwargs and keeps nothing of it), else MaxGen.
LoopBound(cfg) ==
    IF "generations" \in DOMAIN cfg THEN cfg.generations + 1 ELSE MaxGen

\* One pass of the loop body (engine.py:447-544), up to the await of the
\* observer when an update is due, else back to the loop test.
NextGenerations(e, cfg) ==
    LET fresh == toolbox_individual(cfg)
        exprs == toolbox_expr_mut(cfg)
    IN  UNION {UNION {UNION {_prune_population(o3, fresh) :
                               o3 \in MutateFrom(o2, 1, cfg.mutation, exprs)} :
                        o2 \in CrossoverFrom(o1, 1, cfg.crossover)} :
                 o1 \in Selected(e.population, cfg.tournament_size)}

Generation(s) ==
    /\ pc[s] = "loop"
    /\ ~engine[s].should_stop
    /\ engine[s].current_generation < LoopBound(config[s])
    /\ LET e == engine[s]
           cfg == config[s]
           generation == e.current_generation + 1
           factor == _update_adaptive_parsimony(e.adaptive_parsimony, generation)
       IN  \E offspring \in NextGenerations(e, cfg),
              due \in IF generation = LoopBound(cfg) THEN {TRUE} ELSE BOOLEAN :
              LET population == EvaluateInvalid(offspring, cfg.parsimony_coefficient, factor)
                  hof == HofUpdate(e.hof, HOF_MAXSIZE, population)
                  simplest_hof == _update_simplest_hof(population, e.simplest_hof)
                  best == _get_best_parsimonious(hof, simplest_hof)
              IN  /\ engine' = [engine EXCEPT ![s] =
                        [e EXCEPT !.current_generation = generation,
                                  !.adaptive_parsimony = factor,
                                  !.population = population,
                                  !.hof = hof,
                                  !.simplest_hof = simplest_hof,
                                  !.generation_stats =
                                      IF due THEN Append(@, generation) ELSE @]]
                  /\ sent' = [sent EXCEPT ![s] =
                        IF due THEN Append(@, GenerationUpdate(generation, best)) ELSE @]
                  /\ pc' = [pc EXCEPT ![s] = IF due THEN "callback" ELSE "loop"]
                  /\ ghost' = [ghost EXCEPT
                        ![s].iterations = @ + 1,
                        ![s].first_index = IF ghost[s].iterations = 0
                                           THEN generation ELSE @,
                        ![s].first_from_restored =
                            IF ghost[s].iterations = 0
                            THEN Trees(e.population) = ghost[s].restored_population
                            ELSE @,
                        ![s].restored_population = <<>>]
    /\ UNCHANGED <<config, evolution_sessions, running_engines, result, held, store>>

\* GPEngine.stop, called by the script that owns the engine: before
\* evolve() or from inside its observer
ClientStop(s) ==
    /\ config[s].driver = "script"
    /\ pc[s] \in {"constructed", "callback"}
    /\ ~engine[s].should_stop
    /\ engine' = [engine EXCEPT ![s].should_stop = TRUE]
    /\ ghost' = [ghost EXCEPT ![s].stopped_at = ghost[s].iterations]
    /\ UNCHANGED <<config, evolution_sessions, running_engines, pc, sent, result, held,
                   store>>

\* The script keeps what get_checkpoint_state() returned.
ClientGetCheckpointState(s) ==
    /\ config[s].driver = "script"
    /\ pc[s] = "callback"
    /\ ~held[s].taken
    /\ held' = [held EXCEPT ![s] = get_checkpoint_state(engine[s], config[s])]
    /\ ghost' = [ghost EXCEPT ![s].captured_population = engine[s].population,
                              ![s].captured_hof = engine[s].hof]
    /\ UNCHANGED <<config, evolution_sessions, running_engines, pc, engine, sent, result,
                   store>>

\* CheckpointManager.save_checkpoint: the file of an id is (over)written
StampsFrom(st) ==
    {t \in 1..MaxStamp : \A id \in DOMAIN st : id[2] <= t}

\* A checkpoint id's two files: the pickled state with the condition of the
\* .pkl file ("ok", "broken": truncated or partly written, or "absent":
\* removed from the directory while the metadata stayed), and the .json
\* metadata file ("ok", "broken" or "absent") with the generation it records.
CheckpointFiles(state, pkl, meta, meta_generation) ==
    state @@ [pkl |-> pkl, meta |-> meta, meta_generation |-> meta_generation]

Saved(st, id, state) ==
    [i \in DOMAIN st \cup {id} |->
        IF i = id THEN CheckpointFiles(state, "ok", "ok", state.generation) ELSE st[i]]

\* CheckpointManager.save_checkpoint raises.  The stores it can leave:
\* nothing written (open of the .pkl fails); the .pkl truncated or partly
\* written by a failed pickle.dump and the metadata not reached; the .pkl
\* complete and the metadata not opened, or partly written by json.dump.
\* Metadata that was not reached is what an earlier save of the id left.
SaveFailures(st, id, state) ==
    LET old_meta == IF id \in DOMAIN st THEN st[id].meta ELSE "absent"
        old_gen  == IF id \in DOMAIN st THEN st[id].meta_generation ELSE -1
        with(files) == [i \in DOMAIN st \cup {id} |-> IF i = id THEN files ELSE st[i]]
    IN  {st,
         with(CheckpointFiles(state, "broken", old_meta, old_gen)),
         with(CheckpointFiles(state, "ok", old_meta, old_gen)),
         with(CheckpointFiles(state, "ok", "broken", -1))}

\* CheckpointManager.list_checkpoints: the ids whose metadata file loads and
\* whose .pkl file exists
list_checkpoints(st) == {id \in DOMAIN st : st[id].meta = "ok" /\ st[id].pkl # "absent"}

\* CheckpointManager.load_checkpoint succeeds: the .pkl exists and unpickles
Loadable(st, id) == id \in DOMAIN st /\ st[id].pkl = "ok"

\* The script saves the snapshot it holds.
ClientSave(s) ==
    /\ config[s].driver = "script"
    /\ pc[s] \in {"callback", "done"}
    /\ held[s].taken
    /\ \E stamp \in StampsFrom(store) :
          store' = Saved(store, <<s, stamp>>, Pickled(held[s], engine[s]))
    /\ store' # store
    /\ UNCHANGED <<config, evolution_sessions, running_engines, pc, engine, sent, result,
                   held, ghost>>

\* The script, its run over, loads a checkpoint, deletes its file
\* (CheckpointManager.delete_checkpoint) and restores it into a new engine
\* built from the checkpoint's configuration, with a new observer.
Deleted(st, id) == [i \in DOMAIN st \ {id} |-> st[i]]

ClientRestore(id, s) ==
    /\ Loadable(store, id)
    /\ config[s].driver = "script"
    /\ pc[s] = "done"
    /\ ghost[s].runs < MaxRuns
    /\ config' = [config EXCEPT ![s] = [driver |-> "script"] @@ store[id].config]
    /\ engine' = [engine EXCEPT ![s] = restore_from_checkpoint(NewEngine, store[id])]
    /\ store' = Deleted(store, id)
    /\ sent' = [sent EXCEPT ![s] = <<>>]
    /\ result' = [result EXCEPT ![s] = NoResult]
    /\ held' = [held EXCEPT ![s] = NoSnapshot]
    /\ ghost' = [ghost EXCEPT ![s] =
          [NoGhost EXCEPT !.runs = ghost[s].runs,
                          !.restored_generation = store[id].generation,
                          !.restored_population = Trees(store[id].population)]]
    /\ pc' = [pc EXCEPT ![s] = "constructed"]
    /\ UNCHANGED <<evolution_sessions, running_engines>>

\* `await callback(update)` returns.  run_evolution's on_update records
\* the update in the session registry after the broadcast.
CallbackReturn(s) ==
    /\ pc[s] = "callback"
    /\ Idle
    /\ evolution_sessions' =
          IF config[s].driver = "script" THEN evolution_sessions
          ELSE LET update == sent[s][Len(sent[s])]
               IN  [evolution_sessions EXCEPT
                      ![s].current_generation = update.generation,
                      ![s].best_fitness = update.best_fitness,
                      ![s].best_equation = update.best_equation]
    /\ pc' = [pc EXCEPT ![s] = "yield"]
    /\ UNCHANGED <<config, running_engines, engine, sent, result, held, store, ghost>>

\* A callback failure that stops the engine
Mut_C15_ErrorStopsEngine(e) == [e EXCEPT !.should_stop = TRUE]

\* the engine after the except branch of the emission (engine.py:541-542):
\* the error is logged, nothing is assigned
AfterCallbackError(e) == e

\* `await callback(update)` raises an Exception: evolve() catches it and
\* goes on to `await asyncio.sleep(0)`.  The observer did not finish, so
\* whatever it records after the failing statement is not recorded.
CallbackRaise(s) ==
    /\ pc[s] = "callback"
    /\ Idle
    /\ engine' = [engine EXCEPT ![s] = AfterCallbackError(@)]
    /\ ghost' = [ghost EXCEPT ![s].callback_failures = @ + 1,
                              ![s].failed_at = engine[s].current_generation]
    /\ pc' = [pc EXCEPT ![s] = "yield"]
    /\ UNCHANGED <<config, evolution_sessions, running_engines, sent, result, held,
                   store>>

\* `await asyncio.sleep(0)` returns
YieldReturn(s) ==
    /\ pc[s] = "yield"
    /\ Idle
    /\ engine[s].current_generation < LoopBound(config[s]) \/ engine[s].should_stop
    /\ pc' = [pc EXCEPT ![s] = "loop"]
    /\ UNCHANGED <<config, evolution_sessions, running_engines, engine, sent, result,
                   held, store, ghost>>

\* A result that counts one generation more than were run
Mut_C16_CountsOneMore(e) ==
    [status |-> "stopped", generations_completed |-> e.current_generation + 1,
     best_equation |-> IF Len(e.hof) > 0 THEN e.hof[1].tree ELSE <<>>,
     best_fitness |-> IF Len(e.hof) > 0 THEN e.hof[1].fit ELSE -1,
     hall_of_fame |-> e.hof,
     pareto_front |-> _calculate_pareto_front(e.hof)]

\* what evolve() returns once the loop has ended (engine.py:547-568)
EvolveResult(e) ==
    [status |-> "stopped", generations_completed |-> e.current_generation,
     best_equation |-> IF Len(e.hof) > 0 THEN e.hof[1].tree ELSE <<>>,
     best_fitness |-> IF Len(e.hof) > 0 THEN e.hof[1].fit ELSE -1,
     hall_of_fame |-> e.hof,
     pareto_front |-> _calculate_pareto_front(e.hof)]

\* A final message of the wrong type
Mut_C3_FinalAsUpdate(driver, r) ==
    [type |-> "generation_update", generation |-> r.generations_completed,
     best_equation |-> r.best_equation, best_fitness |-> r.best_fitness]

\* the final message of run_evolution / run_restored_evolution; the clock
\* is not followed, and the elapsed_time that is sent is kept as 0
EvolutionStopped(driver, r) ==
    IF driver = "restored"
    THEN [type |-> "evolution_stopped", status |-> r.status,
          hall_of_fame |-> r.hall_of_fame, pareto_front |-> r.pareto_front]
    ELSE [type |-> "evolution_stopped", status |-> r.status,
          elapsed_time |-> 0,
          generations_completed |-> r.generations_completed,
          best_equation |-> r.best_equation, best_fitness |-> r.best_fitness,
          hall_of_fame |-> r.hall_of_fame, pareto_front |-> r.pareto_front]

\* The loop test fails: evolve() returns; its caller in the routes records
\* the result and sends the final message.
EvolveReturn(s) ==
    /\ pc[s] = "loop"
    /\ engine[s].should_stop
    /\ LET r == EvolveResult(engine[s])
       IN  /\ result' = [result EXCEPT ![s] = r]
           /\ engine' = [engine EXCEPT ![s].is_running = FALSE]
           /\ IF config[s].driver = "script"
              THEN /\ pc' = [pc EXCEPT ![s] = "done"]
                   /\ UNCHANGED <<evolution_sessions, sent>>
              ELSE /\ evolution_sessions' = [evolution_sessions EXCEPT
                          ![s].status = r.status,
                          ![s].best_fitness = r.best_fitness,
                          ![s].best_equation = r.best_equation]
                   /\ sent' = [sent EXCEPT
                          ![s] = Append(@, EvolutionStopped(config[s].driver, r))]
                   /\ pc' = [pc EXCEPT ![s] = "final_send"]
    /\ UNCHANGED <<config, running_engines, held, store, ghost>>

\* ------------------------------------------------------------------ routes
\* uuid4 yields an unused identifier: the sessions are taken in order
FreshId(s) ==
    /\ evolution_sessions[s].status = "none"
    /\ pc[s] = "none"
    /\ s = "s2" => evolution_sessions["s1"].status # "none"

\* The configurations posted to /start: one individual of depth one that
\* is only selected (variation is followed under the script's runs), and
\* the same with empty operator and function lists
RouteConfigs ==
    {Config("route", 1, 1, 100, FALSE, FALSE, 7),
     [Config("route", 1, 1, 100, FALSE, FALSE, 7) EXCEPT !.operators = <<>>]}

PendingSession(generation) ==
    [status |-> "pending", current_generation |-> generation,
     best_fitness |-> -1, best_equation |-> <<>>]

\* POST /start (a dataset with the posted columns is loaded)
start_evolution(s) ==
    /\ FreshId(s)
    /\ Idle
    /\ \E cfg \in RouteConfigs : config' = [config EXCEPT ![s] = cfg]
    /\ evolution_sessions' = [evolution_sessions EXCEPT ![s] = PendingSession(0)]
    /\ pc' = [pc EXCEPT ![s] = "scheduled"]
    /\ UNCHANGED <<running_engines, engine, sent, result, held, store, ghost>>

\* GPEngine._setup_deap raises: the test individual (engine.py:225-244) is
\* generated with min_=1, so its root must be a primitive, and generation
\* fails when the primitive set holds none.
SetupRaises(cfg) == Primitives(cfg) = {}

\* A failure that leaves the session record as it was
Mut_C17_StatusKept(session) == session

\* the session record after the `except` of the task (evolution.py:124-125)
SessionError(session) == [session EXCEPT !.status = "error"]

ErrorMessage == [type |-> "error"]

\* run_evolution / run_restored_evolution when GPEngine(...) raises: the
\* `except` marks the session and awaits the broadcast of the error
\* message; no engine was registered.
run_evolution_error(s) ==
    /\ pc[s] = "scheduled"
    /\ Idle
    /\ SetupRaises(config[s])
    /\ evolution_sessions' = [evolution_sessions EXCEPT ![s] = SessionError(@)]
    /\ sent' = [sent EXCEPT ![s] = Append(@, ErrorMessage)]
    /\ pc' = [pc EXCEPT ![s] = "final_send"]
    /\ UNCHANGED <<config, running_engines, engine, result, held, store, ghost>>

\* run_evolution / run_restored_evolution from the start of the task to
\* the call of engine.evolve(): the engine is built (and restored),
\* registered, and the session marked running
run_evolution(s) ==
    /\ pc[s] = "scheduled"
    /\ Idle
    /\ ~SetupRaises(config[s])
    /\ engine' = [engine EXCEPT ![s] =
          IF config[s].driver = "restored"
          THEN restore_from_checkpoint(NewEngine, config[s].checkpoint_state)
          ELSE NewEngine]
    /\ running_engines' = running_engines \cup {s}
    /\ evolution_sessions' = [evolution_sessions EXCEPT ![s].status = "running"]
    /\ pc' = [pc EXCEPT ![s] = "constructed"]
    /\ ghost' = [ghost EXCEPT
          ![s].restored_generation =
              IF config[s].driver = "restored"
              THEN config[s].checkpoint_state.generation ELSE @,
          ![s].restored_population =
              IF config[s].driver = "restored"
              THEN Trees(config[s].checkpoint_state.population) ELSE @]
    /\ UNCHANGED <<config, sent, result, held, store>>

\* the `finally` of the task, once the final broadcast has returned
TaskEnd(s) ==
    /\ pc[s] = "final_send"
    /\ Idle
    /\ running_engines' = running_engines \ {s}
    /\ pc' = [pc EXCEPT ![s] = "done"]
    /\ UNCHANGED <<config, evolution_sessions, engine, sent, result, held, store, ghost>>

\* POST /stop/{session_id}
\* A stop route that stops every registered engine
Mut_C22_StopsEveryEngine(s) ==
    /\ evolution_sessions[s].status # "none"
    /\ Idle
    /\ engine' = [b \in Sessions |->
                     IF b \in running_engines
                     THEN [engine[b] EXCEPT !.should_stop = TRUE] ELSE engine[b]]
    /\ ghost' = [ghost EXCEPT ![s].stopped_at =
                     IF @ < 0 /\ s \in running_engines THEN ghost[s].iterations ELSE @]
    /\ evolution_sessions' = [evolution_sessions EXCEPT ![s].status = "stopped"]
    /\ UNCHANGED <<config, running_engines, pc, sent, result, held, store>>

stop_evolution(s) ==
    /\ evolution_sessions[s].status # "none"
    /\ Idle
    /\ IF s \in running_engines
       THEN /\ engine' = [engine EXCEPT ![s].should_stop = TRUE]
            /\ ghost' = [ghost EXCEPT ![s].stopped_at =
                            IF @ < 0 THEN ghost[s].iterations ELSE @]
       ELSE UNCHANGED <<engine, ghost>>
    /\ evolution_sessions' = [evolution_sessions EXCEPT ![s].status = "stopped"]
    /\ UNCHANGED <<config, running_engines, pc, sent, result, held, store>>

\* POST /checkpoint/{session_id}
save_checkpoint(s) ==
    /\ s \in running_engines
    /\ Idle
    /\ \E stamp \in StampsFrom(store) :
          /\ store' = Saved(store, <<s, stamp>>,
                            Pickled(get_checkpoint_state(engine[s], config[s]), engine[s]))
          /\ ghost' = [ghost EXCEPT ![s].failed_id =
                           IF @ = <<s, stamp>> THEN <<>> ELSE @]
    /\ UNCHANGED <<config, evolution_sessions, running_engines, pc, engine, sent, result,
                   held>>

\* POST /checkpoint/{session_id} when CheckpointManager.save_checkpoint
\* raises: the route answers 500 (evolution.py:280-281)
save_checkpoint_error(s) ==
    /\ s \in running_engines
    /\ Idle
    /\ ghost[s].save_failures < MaxSaveFailures
    /\ \E stamp \in StampsFrom(store) :
          /\ store' \in SaveFailures(store, <<s, stamp>>,
                            Pickled(get_checkpoint_state(engine[s], config[s]), engine[s]))
          /\ ghost' = [ghost EXCEPT ![s].failed_id =
                                        IF store' = store THEN @ ELSE <<s, stamp>>,
                                    ![s].save_failures = @ + 1]
    /\ UNCHANGED <<config, evolution_sessions, running_engines, pc, engine, sent, result,
                   held>>

\* ---------------------------------------------------------- specifications
Init ==
    /\ config = [s \in Sessions |-> NoConfig]
    /\ evolution_sessions = [s \in Sessions |-> NoSession]
    /\ running_engines = {}
    /\ pc = [s \in Sessions |-> "none"]
    /\ engine = [s \in Sessions |-> NoEngine]
    /\ sent = [s \in Sessions |-> <<>>]
    /\ result = [s \in Sessions |-> NoResult]
    /\ held = [s \in Sessions |-> NoSnapshot]
    /\ store = <<>>
    /\ ghost = [s \in Sessions |-> NoGhost]

\* A script driving engines through the engine's own interface
Next ==
    \/ \E s \in Sessions : Construct(s)
    \/ \E s \in Sessions : ClientStop(s)
    \/ \E s \in Sessions : EvolveStart(s)
    \/ \E s \in Sessions : Generation(s)
    \/ \E s \in Sessions : ClientGetCheckpointState(s)
    \/ \E s \in Sessions : ClientSave(s)
    \/ \E s \in Sessions : CallbackReturn(s)
    \/ \E s \in Sessions : YieldReturn(s)
    \/ \E s \in Sessions : EvolveReturn(s)
    \/ \E id \in DOMAIN store, s \in Sessions : ClientRestore(id, s)

Spec == Init /\ [][Next]_vars

\* POST /restore/{checkpoint_id}: the checkpoint is loaded and a new session
\* is scheduled with it and with its configuration
restore_route(id, t) ==
    /\ Loadable(store, id)
    /\ FreshId(t)
    /\ Idle
    /\ config' = [config EXCEPT ![t] =
          [driver |-> "restored", checkpoint_state |-> store[id]] @@ store[id].config]
    /\ evolution_sessions' = [evolution_sessions EXCEPT
          ![t] = PendingSession(store[id].generation)]
    /\ pc' = [pc EXCEPT ![t] = "scheduled"]
    /\ UNCHANGED <<running_engines, engine, sent, result, held, store, ghost>>

\* The sessions of the routes
NextRoutes ==
    \/ \E s \in Sessions : start_evolution(s)
    \/ \E s \in Sessions : run_evolution(s)
    \/ \E s \in Sessions : run_evolution_error(s)
    \/ \E s \in Sessions : EvolveStart(s)
    \/ \E s \in Sessions : Generation(s)
    \/ \E s \in Sessions : CallbackReturn(s)
    \/ \E s \in Sessions : YieldReturn(s)
    \/ \E s \in Sessions : EvolveReturn(s)
    \/ \E s \in Sessions : TaskEnd(s)
    \/ \E s \in Sessions : stop_evolution(s)
    \/ \E s \in Sessions : save_checkpoint(s)
    \/ \E s \in Sessions : \E id \in DOMAIN store : restore_route(id, s)

SpecRoutes == Init /\ [][NextRoutes]_vars

\* A task moves on: the synchronous part of a running task goes on to its
\* next await (time passes, so an update falls due after finitely many
\* generations), and the event loop resumes a task whose await is over.
\* Stated on the task's position alone.
At(s, from) == pc[s] = from
Goes(s, to) == pc' = [pc EXCEPT ![s] = to]

TaskStep ==
    \E s \in Sessions :
        \/ At(s, "scheduled") /\ Idle /\ Goes(s, "constructed")
        \/ At(s, "constructed") /\ Goes(s, "loop")
        \/ /\ At(s, "loop")
           /\ ~engine[s].should_stop
           /\ engine[s].current_generation < MaxGen
           /\ Goes(s, "callback")
        \/ At(s, "loop") /\ engine[s].should_stop /\ Goes(s, "final_send")
        \/ At(s, "callback") /\ Idle /\ Goes(s, "yield")
        \/ /\ At(s, "yield")
           /\ Idle
           /\ engine[s].current_generation < MaxGen \/ engine[s].should_stop
           /\ Goes(s, "loop")
        \/ At(s, "final_send") /\ Idle /\ Goes(s, "done")

Fairness == WF_pc(TaskStep)

FairSpecRoutes == Init /\ [][NextRoutes]_vars /\ Fairness

\* ------------------------------------------------------------------ claims
\* a run of evolve() has made at least one pass of its loop
Started(s) == engine[s].constructed /\ ghost[s].iterations >= 1

Updates(s) == {i \in 1..Len(sent[s]) : sent[s][i].type = "generation_update"}
Finals(s) == {i \in 1..Len(sent[s]) : sent[s][i].type = "evolution_stopped"}

\* C1: at the end of every generation every tree of the population has at
\* most MAX_TREE_SIZE nodes.
C1_PopulationWithinSize ==
    \A s \in Sessions :
        Started(s) =>
            \A i \in 1..Len(engine[s].population) :
                Size(engine[s].population[i].tree) <= MAX_TREE_SIZE

\* C2: once stop() has been called on an engine, at whatever time (before
\* evolve() included), the loop makes no further pass.
C2_StopIsLevelTriggered ==
    \A s \in Sessions :
        ghost[s].stopped_at >= 0 => ghost[s].iterations <= ghost[s].stopped_at

\* C3: after stop() on a running session, evolve() eventually returns with
\* status "stopped" and the final message is sent; at all times at most
\* one final message has been sent and nothing follows it.
C3_StopLeadsToFinalMessage ==
    /\ \A s \in Sessions :
          (s \in running_engines /\ engine[s].is_running /\ engine[s].should_stop)
            ~> (/\ result[s].status = "stopped"
                /\ Cardinality(Finals(s)) = 1
                /\ sent[s][Len(sent[s])].type = "evolution_stopped")
    /\ [](\A s \in Sessions :
            /\ Cardinality(Finals(s)) <= 1
            /\ \A i \in Finals(s) : i = Len(sent[s]))

\* C3 witness: a session stopped while running has received updates and
\* then its final message
C3_Witness ==
    \E s \in Sessions :
        /\ ghost[s].stopped_at >= 1
        /\ config[s].driver = "route"
        /\ result[s].status = "stopped"
        /\ Updates(s) # {}
        /\ Finals(s) = {Len(sent[s])}

\* C4: the generation numbers of a session's generation_update messages
\* are strictly increasing.
C4_UpdatesStrictlyIncreasing ==
    \A s \in Sessions :
        \A i, j \in Updates(s) :
            i < j => sent[s][i].generation < sent[s][j].generation

\* C4 witness: a session with two updates
C4_Witness ==
    \E s \in Sessions : Cardinality(Updates(s)) >= 2

\* C5: the first generation run after a restore has the index after the
\* snapshot's and is bred from the snapshot's population.
C5_RestoredRunContinues ==
    \A s \in Sessions :
        (ghost[s].restored_generation >= 0 /\ ghost[s].iterations >= 1) =>
            /\ ghost[s].first_index = ghost[s].restored_generation + 1
            /\ ghost[s].first_from_restored

\* C6: a restored run emits what the original run would have emitted after
\* the snapshot: every update it emits is for a generation after the
\* snapshot's.
C6_RestoredEmissionsFollowSnapshot ==
    \A s \in Sessions :
        ghost[s].restored_generation >= 0 =>
            \A i \in Updates(s) :
                sent[s][i].generation > ghost[s].restored_generation

\* C7: the population and hall of fame of a snapshot that was returned
\* stay what they were when it was taken.
C7_SnapshotIsolated ==
    \A s \in Sessions :
        held[s].taken =>
            /\ SnapshotPopulation(held[s], engine[s]) = ghost[s].captured_population
            /\ SnapshotHof(held[s], engine[s]) = ghost[s].captured_hof

\* C8: from the initial population on, the population holds exactly
\* min(requested population_size, 500) individuals.
C8_PopulationSizeConstant ==
    \A s \in Sessions :
        (engine[s].constructed /\ pc[s] # "constructed") =>
            Len(engine[s].population) = Min(config[s].population_size, MAX_POPULATION)

\* C8 witness: a population of the two requested individuals after two
\* generations of selection and crossover
C8_Witness ==
    \E s \in Sessions :
        /\ engine[s].constructed
        /\ config[s].crossover
        /\ config[s].population_size = 2
        /\ ghost[s].iterations >= 2
        /\ Len(engine[s].population) = 2

\* C9: every valid fitness is between 0 and 1e10.
C9_FitnessWithinRange ==
    \A s \in Sessions :
        engine[s].constructed =>
            \A i \in 1..Len(engine[s].population) :
                engine[s].population[i].valid =>
                    /\ engine[s].population[i].fit >= 0
                    /\ engine[s].population[i].fit <= FIT_CAP

\* ------------------------------------------------- the hall of fame alone
\* Individuals a run can hand to HallOfFame.update: the individuals of a
\* configuration of depth one and the offspring mutated from them at any
\* point, evaluated at generation 0.
HofConfig == Config("script", 1, 1, 100, TRUE, FALSE, 7)

HofCandidateTrees ==
    toolbox_individual(HofConfig)
      \cup UNION {{toolbox_mutate(t, index, expr) :
                      index \in 0..(Len(t) - 1),
                      expr \in toolbox_expr_mut(HofConfig)} :
                   t \in toolbox_individual(HofConfig)}

HofCandidates ==
    {WithFitness(Individual(t),
                 _evaluate_individual(t, HofConfig.parsimony_coefficient,
                                      PARSIMONY_PERIOD)) :
        t \in HofCandidateTrees}

InitHof ==
    /\ config = [s \in Sessions |-> IF s = "s1" THEN HofConfig ELSE NoConfig]
    /\ evolution_sessions = [s \in Sessions |-> NoSession]
    /\ running_engines = {}
    /\ pc = [s \in Sessions |-> IF s = "s1" THEN "loop" ELSE "none"]
    /\ engine = [s \in Sessions |-> IF s = "s1" THEN NewEngine ELSE NoEngine]
    /\ sent = [s \in Sessions |-> <<>>]
    /\ result = [s \in Sessions |-> NoResult]
    /\ held = [s \in Sessions |-> NoSnapshot]
    /\ store = <<>>
    /\ ghost = [s \in Sessions |-> NoGhost]

\* hof.update(population) (engine.py:432, 481) with a population of the
\* configured size
hof_update(s) ==
    /\ engine[s].constructed
    /\ \E population \in [1..PopulationSize(config[s]) -> HofCandidates] :
          engine' = [engine EXCEPT ![s].hof = HofUpdate(@, HOF_MAXSIZE, population)]
    /\ UNCHANGED <<config, evolution_sessions, running_engines, pc, sent, result, held,
                   store, ghost>>

NextHof == \E s \in Sessions : hof_update(s)

SpecHof == InitHof /\ [][NextHof]_vars

\* C10: the hall of fame holds at most 10 trees in ascending order of
\* fitness, and an update lets a tree in only if the hall was not full or
\* the tree is strictly better than the worst member.
C10_HofBoundedSortedStrict ==
    /\ [](\A s \in Sessions :
            engine[s].constructed =>
                /\ Len(engine[s].hof) <= HOF_MAXSIZE
                /\ \A i, j \in 1..Len(engine[s].hof) :
                      i < j => engine[s].hof[i].fit <= engine[s].hof[j].fit)
    /\ [][\A s \in Sessions :
            (engine[s].constructed /\ engine'[s].constructed) =>
                \A k \in 1..Len(engine'[s].hof) :
                    (\A i \in 1..Len(engine[s].hof) :
                        engine[s].hof[i].tree # engine'[s].hof[k].tree)
                    => \/ Len(engine[s].hof) < HOF_MAXSIZE
                       \/ engine'[s].hof[k].fit
                            < engine[s].hof[Len(engine[s].hof)].fit]_vars

\* C10 witness: a full hall of fame that holds two trees of equal fitness
\* and has turned a candidate away
C10_Witness ==
    \E s \in Sessions :
        /\ engine[s].constructed
        /\ Len(engine[s].hof) = HOF_MAXSIZE
        /\ \E i \in 1..(HOF_MAXSIZE - 1) : engine[s].hof[i].fit = engine[s].hof[i + 1].fit
        /\ \E c \in HofCandidates :
              /\ \A i \in 1..HOF_MAXSIZE : engine[s].hof[i].tree # c.tree
              /\ c.fit >= engine[s].hof[HOF_MAXSIZE].fit

\* ------------------------------------------------ the simplest-good HOF
\* _update_simplest_hof(population, simplest_hof) (engine.py:433, 482) with a
\* population of the configured size, drawn from the individuals a run can
\* evaluate
simplest_update(s) ==
    /\ engine[s].constructed
    /\ Len(engine[s].simplest_hof) < MaxSimplestLen
    /\ \E population \in [1..PopulationSize(config[s]) -> HofCandidates] :
          engine' = [engine EXCEPT
                        ![s].simplest_hof = _update_simplest_hof(population, @)]
    /\ UNCHANGED <<config, evolution_sessions, running_engines, pc, sent, result, held,
                   store, ghost>>

NextSimplest == \E s \in Sessions : simplest_update(s)

SpecSimplest == InitHof /\ [][NextSimplest]_vars

\* C11: every member of the simplest-good hall of fame has a train
\* R-squared of at least 0.8 (the train set is fixed, so the value at
\* insertion is the value now).
C11_SimplestHofAboveThreshold ==
    \A s \in Sessions :
        engine[s].constructed =>
            \A i \in 1..Len(engine[s].simplest_hof) :
                FracGe(TrainR2(engine[s].simplest_hof[i].tree), 4, 5)

\* C11 witness: an evaluated population with a tree below the threshold
\* that was kept out while a tree above it went in
C11_Witness ==
    \E s \in Sessions :
        /\ engine[s].constructed
        /\ Len(engine[s].simplest_hof) > 0
        /\ \E i \in 1..Len(engine[s].population) :
              /\ engine[s].population[i].valid
              /\ ~FracGe(TrainR2(engine[s].population[i].tree), 4, 5)
              /\ \A k \in 1..Len(engine[s].simplest_hof) :
                    engine[s].simplest_hof[k].tree # engine[s].population[i].tree

\* C12: the simplest-good hall of fame never holds more than 10 trees.
C12_SimplestHofBounded ==
    \A s \in Sessions :
        engine[s].constructed => Len(engine[s].simplest_hof) <= HOF_MAXSIZE

\* C13: neither hall of fame holds two members with the same tree.
C13_HallsHoldNoEqualTrees ==
    \A s \in Sessions :
        engine[s].constructed =>
            /\ \A i, j \in 1..Len(engine[s].hof) :
                  i # j => engine[s].hof[i].tree # engine[s].hof[j].tree
            /\ \A i, j \in 1..Len(engine[s].simplest_hof) :
                  i # j => engine[s].simplest_hof[i].tree # engine[s].simplest_hof[j].tree

\* ------------------------------------------------------ two runs compared
\* Two engines constructed from the same dataset, configuration and
\* random_state (engine.py:164-168 passes random_state to the train/test
\* split only; the trees are drawn from the process-wide `random` generator,
\* which nothing seeds), each run by evolve().
PairConfig == Config("script", 1, 1, 100, FALSE, FALSE, 7)

InitPair ==
    /\ config = [s \in Sessions |-> PairConfig]
    /\ evolution_sessions = [s \in Sessions |-> NoSession]
    /\ running_engines = {}
    /\ pc = [s \in Sessions |-> "constructed"]
    /\ engine = [s \in Sessions |-> NewEngine]
    /\ sent = [s \in Sessions |-> <<>>]
    /\ result = [s \in Sessions |-> NoResult]
    /\ held = [s \in Sessions |-> NoSnapshot]
    /\ store = <<>>
    /\ ghost = [s \in Sessions |-> NoGhost]

NextPair ==
    \/ \E s \in Sessions : EvolveStart(s)
    \/ \E s \in Sessions : Generation(s)
    \/ \E s \in Sessions : ClientStop(s)
    \/ \E s \in Sessions : CallbackReturn(s)
    \/ \E s \in Sessions : YieldReturn(s)
    \/ \E s \in Sessions : EvolveReturn(s)

SpecPair == InitPair /\ [][NextPair]_vars

\* C14: two runs with the same inputs, configuration and random_state have
\* the same first population and, once both have returned after the same
\* number of generations, the same Pareto front.
C14_RunsAreDeterministic ==
    \A s, t \in Sessions :
        (config[s] = config[t] /\ config[s] # NoConfig) =>
            /\ (/\ pc[s] = "loop" /\ pc[t] = "loop"
                /\ ghost[s].runs = 1 /\ ghost[t].runs = 1
                /\ ghost[s].iterations = 0 /\ ghost[t].iterations = 0)
                  => Trees(engine[s].population) = Trees(engine[t].population)
            /\ (/\ result[s] # NoResult /\ result[t] # NoResult
                /\ result[s].generations_completed = result[t].generations_completed)
                  => result[s].pareto_front = result[t].pareto_front

\* ------------------------------------------------- an observer that raises
\* An engine run by a script whose observer may raise on any call.
NextObserver ==
    \/ \E s \in Sessions : Construct(s)
    \/ \E s \in Sessions : EvolveStart(s)
    \/ \E s \in Sessions : Generation(s)
    \/ \E s \in Sessions : ClientStop(s)
    \/ \E s \in Sessions : CallbackReturn(s)
    \/ \E s \in Sessions : CallbackRaise(s)
    \/ \E s \in Sessions : YieldReturn(s)
    \/ \E s \in Sessions : EvolveReturn(s)

SpecObserver == Init /\ [][NextObserver]_vars

FairSpecObserver == Init /\ [][NextObserver]_vars /\ Fairness

\* C15: a call of the observer that raises leaves the engine as it was and
\* the task at its next await; unless stop() is called, the loop then goes
\* on and a later update is handed to the observer.
C15_CallbackFailureAbsorbed ==
    /\ [][\A s \in Sessions :
            ghost'[s].callback_failures > ghost[s].callback_failures =>
                /\ engine'[s] = engine[s]
                /\ pc'[s] = "yield"]_vars
    /\ \A s \in Sessions : \A g \in 1..(MaxGen - 1) :
          (/\ engine[s].constructed
           /\ pc[s] = "yield"
           /\ ghost[s].failed_at = g
           /\ engine[s].current_generation = g)
            ~> (/\ engine[s].constructed
                /\ \/ engine[s].should_stop
                   \/ /\ engine[s].current_generation > g
                      /\ \E i \in Updates(s) : sent[s][i].generation > g)

\* C15 witness: an update handed over for a generation after the one whose
\* call raised
C15_Witness ==
    \E s \in Sessions :
        /\ engine[s].constructed
        /\ ghost[s].failed_at >= 1
        /\ ~engine[s].should_stop
        /\ engine[s].current_generation > ghost[s].failed_at
        /\ \E i \in Updates(s) : sent[s][i].generation > ghost[s].failed_at

\* ----------------------------------------------------- the final result
\* the generation of the last update handed to the observer
LastUpdateGeneration(s) ==
    LET last == CHOOSE i \in Updates(s) : \A j \in Updates(s) : j <= i
    IN  sent[s][last].generation

\* C16: when evolve() has returned "stopped" after at least one update was
\* handed to the observer, generations_completed is the generation of the
\* last update.
C16_CompletedIsLastUpdate ==
    \A s \in Sessions :
        (/\ result[s] # NoResult
         /\ result[s].status = "stopped"
         /\ Updates(s) # {})
            => result[s].generations_completed = LastUpdateGeneration(s)

\* C16 witness: a run stopped through the route after its second
\* generation, of which only the second was reported
C16_Witness ==
    \E s \in Sessions :
        /\ result[s] # NoResult
        /\ evolution_sessions[s].status # "none"
        /\ ghost[s].stopped_at >= 2
        /\ Cardinality(Updates(s)) = 1
        /\ result[s].generations_completed = 2
        /\ LastUpdateGeneration(s) = 2

\* ------------------------------------------------------- failing setup
Errors(s) == {i \in 1..Len(sent[s]) : sent[s][i].type = "error"}

\* C17: when the construction of the engine raises, the task marks the
\* session "error" and sends one error message; the session never has an
\* update or a final message, and no engine of it is registered.
C17_SetupFailureSurfaced ==
    /\ [](\A s \in Sessions :
            (config[s] # NoConfig /\ SetupRaises(config[s])) =>
                /\ Updates(s) = {}
                /\ Finals(s) = {}
                /\ s \notin running_engines
                /\ ~engine[s].constructed
                /\ pc[s] \in {"final_send", "done"} =>
                      /\ Cardinality(Errors(s)) = 1
                      /\ evolution_sessions[s].status \in {"error", "stopped"})
    /\ [][\A s \in Sessions :
            (/\ config[s] # NoConfig
             /\ SetupRaises(config[s])
             /\ pc[s] = "scheduled"
             /\ pc'[s] # "scheduled")
                => /\ evolution_sessions'[s].status = "error"
                   /\ sent'[s] = <<ErrorMessage>>]_vars

\* C17 witness: a session whose setup failed, with its task over, next to a
\* session that ran
C17_Witness ==
    \E s, t \in Sessions :
        /\ config[s] # NoConfig
        /\ SetupRaises(config[s])
        /\ pc[s] = "done"
        /\ evolution_sessions[s].status = "error"
        /\ Cardinality(Errors(s)) = 1
        /\ t # s
        /\ Updates(t) # {}

\* --------------------------------------------------------- failing saves
\* The routes with saves that may raise
NextSave ==
    \/ NextRoutes
    \/ \E s \in Sessions : save_checkpoint_error(s)

SpecSave == Init /\ [][NextSave]_vars

\* C18: the id of a save that raised after it wrote to the id's files is
\* not among the listed checkpoints.
C18_FailedSaveNotListed ==
    \A s \in Sessions :
        ghost[s].failed_id # <<>> => ghost[s].failed_id \notin list_checkpoints(store)

\* ------------------------------------------------------ start requests
\* The dataset held by the data routes (data.py current_dataset): none, or
\* a frame of columns x and y with some rows or with a header only.
NoDataset == [loaded |-> FALSE, columns |-> {}, rows |-> 0]
Datasets ==
    {NoDataset} \cup {[loaded |-> TRUE, columns |-> {"x", "y"}, rows |-> r] : r \in {0, 5}}

\* The features and target of a posted EvolutionConfig
ColumnNames == {"x", "y", "z"}
FeatureLists == UNION {[1..n -> ColumnNames] : n \in 0..MaxFeatures}
StartRequests == [features : FeatureLists, target : ColumnNames]

\* the checks of start_evolution (evolution.py:144-153) pass
StartAccepts(request, dataset) ==
    /\ dataset.loaded
    /\ {request.features[i] : i \in 1..Len(request.features)} \subseteq dataset.columns
    /\ request.target \in dataset.columns

\* POST /start with a request and the dataset that is current: a request
\* that fails a check is answered 400 and changes nothing; otherwise the
\* session is recorded and its task scheduled.
start_request(s) ==
    /\ FreshId(s)
    /\ Idle
    /\ \E request \in StartRequests, dataset \in Datasets :
          /\ StartAccepts(request, dataset)
          /\ config' = [config EXCEPT ![s] =
                [driver |-> "request", features |-> request.features,
                 target |-> request.target, dataset |-> dataset]]
    /\ evolution_sessions' = [evolution_sessions EXCEPT ![s] = PendingSession(0)]
    /\ pc' = [pc EXCEPT ![s] = "scheduled"]
    /\ UNCHANGED <<running_engines, engine, sent, result, held, store, ghost>>

NextStart == \E s \in Sessions : start_request(s)

SpecStart == Init /\ [][NextStart]_vars

\* C19: a session exists and its task is scheduled only for a request whose
\* columns are in the dataset, whose dataset has rows, and whose target is
\* not among its features.
C19_InvalidStartRejected ==
    \A s \in Sessions :
        (evolution_sessions[s].status # "none" /\ config[s].driver = "request") =>
            LET features == {config[s].features[i] : i \in 1..Len(config[s].features)}
            IN  /\ features \subseteq config[s].dataset.columns
                /\ config[s].target \in config[s].dataset.columns
                /\ config[s].dataset.rows > 0
                /\ config[s].target \notin features

\* ------------------------------------------------ the protected primitives
\* The primitives work on Python floats.  A float is modelled as a decimal
\* floating-point number [m, e] of value m * 10^e with DIGITS significant
\* digits (10^(DIGITS-1) <= |m| < 10^DIGITS, or m = 0 and e = 0), rounded
\* toward zero; like binary64 it overflows to an infinity above 1.79e308 and
\* underflows to zero below 4.94e-324.  An infinity is any [m, e] above the
\* largest float; NaN is the record with m = 0 and e = 1.
RECURSIVE Norm(_, _)
Norm(m, e) ==
    IF m = 0 THEN [m |-> 0, e |-> 0]
    ELSE IF Abs(m) >= 10 ^ DIGITS
         THEN Norm((IF m < 0 THEN -1 ELSE 1) * (Abs(m) \div 10), e + 1)
    ELSE IF Abs(m) < 10 ^ (DIGITS - 1) THEN Norm(m * 10, e - 1)
    ELSE [m |-> m, e |-> e]

FAbs(a) == [a EXCEPT !.m = Abs(a.m)]

NaN == [m |-> 0, e |-> 1]

\* math.isnan
IsNaN(a) == a.m = 0 /\ a.e # 0

\* a < b (false when either is NaN)
FLess(a, b) ==
    IF IsNaN(a) \/ IsNaN(b) THEN FALSE
    ELSE IF a.m = 0 THEN b.m > 0
    ELSE IF b.m = 0 THEN a.m < 0
    ELSE IF (a.m < 0) # (b.m < 0) THEN a.m < 0
    ELSE IF a.m > 0 THEN a.e < b.e \/ (a.e = b.e /\ a.m < b.m)
    ELSE a.e > b.e \/ (a.e = b.e /\ a.m < b.m)

\* the float m * 10^e
Dec(m, e) ==
    LET v == Norm(m, e)
    IN  IF v.m # 0 /\ FLess(FAbs(v), Norm(494, -326)) THEN Norm(0, 0) ELSE v

\* math.isinf
IsInf(a) == FLess(Norm(179, 306), FAbs(a))

PosInf == [m |-> 10 ^ (DIGITS - 1), e |-> 400]
NegInf == [m |-> -(10 ^ (DIGITS - 1)), e |-> 400]

\* np.isfinite
IsFinite(a) == ~IsInf(a) /\ ~IsNaN(a)

\* a + b: an operand more than DIGITS decimal orders below the other is
\* absorbed
FAdd(a, b) ==
    IF IsNaN(a) \/ IsNaN(b) THEN NaN
    ELSE IF IsInf(a) /\ IsInf(b) THEN (IF (a.m < 0) = (b.m < 0) THEN a ELSE NaN)
    ELSE IF IsInf(a) THEN a
    ELSE IF IsInf(b) THEN b
    ELSE IF a.m = 0 THEN b
    ELSE IF b.m = 0 THEN a
    ELSE IF a.e - b.e > DIGITS THEN a
    ELSE IF b.e - a.e > DIGITS THEN b
    ELSE IF a.e >= b.e THEN Dec(a.m * 10 ^ (a.e - b.e) + b.m, b.e)
    ELSE Dec(a.m + b.m * 10 ^ (b.e - a.e), a.e)

FNeg(a) == [a EXCEPT !.m = -a.m]

FMul(a, b) ==
    IF IsNaN(a) \/ IsNaN(b) THEN NaN
    ELSE IF (IsInf(a) \/ IsInf(b)) /\ (a.m = 0 \/ b.m = 0) THEN NaN
    ELSE IF IsInf(a) \/ IsInf(b)
    THEN (IF (a.m < 0) = (b.m < 0) THEN PosInf ELSE NegInf)
    ELSE Dec(a.m * b.m, a.e + b.e)

\* a / b, b # 0
FDiv(a, b) ==
    IF IsNaN(a) \/ IsNaN(b) \/ (IsInf(a) /\ IsInf(b)) THEN NaN
    ELSE IF IsInf(b) THEN Dec(0, 0)
    ELSE IF IsInf(a) THEN (IF (a.m < 0) = (b.m < 0) THEN PosInf ELSE NegInf)
    ELSE
    Dec((IF (a.m < 0) # (b.m < 0) THEN -1 ELSE 1)
          * ((Abs(a.m) * 10 ^ DIGITS) \div Abs(b.m)),
        a.e - b.e - DIGITS)

\* The arguments the primitives are applied to.
FloatSamples ==
    {Dec(0, 0), Dec(1, 0), Dec(-1, 0), Dec(2, 0), Dec(1, -10), Dec(5, -11),
     Dec(9, 9), Dec(-9, 9), Dec(1, 10), Dec(2, 10), Dec(1, 308), Dec(-1, 308)}

\* A float written with its three significant digits: m * 10^e with
\* 100 <= |m| < 1000, or zero
Lit(m, e) ==
    IF m = 0 THEN [m |-> 0, e |-> 0]
    ELSE [m |-> m * 10 ^ (DIGITS - 3), e |-> e - (DIGITS - 3)]

\* The functions of Python's math module the primitives call, as the table of
\* their values at the arguments they get from FloatSamples (exp: after the
\* clamp to [-30, 30]; sqrt: after abs; log: the positive ones), each value
\* rounded toward zero to three digits.
math_values(fn, x) ==
    CASE
         fn = "exp" ->
           (CASE x = Lit(0, 0) -> Lit(100, -2)
              [] x = Lit(100, -2) -> Lit(271, -2)
              [] x = Lit(-100, -2) -> Lit(367, -3)
              [] x = Lit(200, -2) -> Lit(738, -2)
              [] x = Lit(100, -12) -> Lit(100, -2)
              [] x = Lit(500, -13) -> Lit(100, -2)
              [] x = Lit(300, -1) -> Lit(106, 11)
              [] x = Lit(-300, -1) -> Lit(935, -16))
      [] fn = "log" ->
           (CASE x = Lit(100, -2) -> Lit(0, 0)
              [] x = Lit(200, -2) -> Lit(693, -3)
              [] x = Lit(100, -12) -> Lit(-230, -1)
              [] x = Lit(500, -13) -> Lit(-237, -1)
              [] x = Lit(900, 7) -> Lit(229, -1)
              [] x = Lit(100, 8) -> Lit(230, -1)
              [] x = Lit(200, 8) -> Lit(237, -1)
              [] x = Lit(100, 306) -> Lit(709, 0))
      [] fn = "sqrt" ->
           (CASE x = Lit(0, 0) -> Lit(0, 0)
              [] x = Lit(100, -2) -> Lit(100, -2)
              [] x = Lit(200, -2) -> Lit(141, -2)
              [] x = Lit(100, -12) -> Lit(100, -7)
              [] x = Lit(500, -13) -> Lit(707, -8)
              [] x = Lit(900, 7) -> Lit(948, 2)
              [] x = Lit(100, 8) -> Lit(100, 3)
              [] x = Lit(200, 8) -> Lit(141, 3)
              [] x = Lit(100, 306) -> Lit(100, 152))
      [] fn = "sin" ->
           (CASE x = Lit(0, 0) -> Lit(0, 0)
              [] x = Lit(100, -2) -> Lit(841, -3)
              [] x = Lit(-100, -2) -> Lit(-841, -3)
              [] x = Lit(200, -2) -> Lit(909, -3)
              [] x = Lit(100, -12) -> Lit(100, -12)
              [] x = Lit(500, -13) -> Lit(500, -13)
              [] x = Lit(900, 7) -> Lit(-885, -3)
              [] x = Lit(-900, 7) -> Lit(885, -3)
              [] x = Lit(100, 8) -> Lit(-487, -3)
              [] x = Lit(200, 8) -> Lit(-851, -3)
              [] x = Lit(100, 306) -> Lit(453, -3)
              [] x = Lit(-100, 306) -> Lit(-453, -3))
      [] fn = "cos" ->
           (CASE x = Lit(0, 0) -> Lit(100, -2)
              [] x = Lit(100, -2) -> Lit(540, -3)
              [] x = Lit(-100, -2) -> Lit(540, -3)
              [] x = Lit(200, -2) -> Lit(-416, -3)
              [] x = Lit(100, -12) -> Lit(100, -2)
              [] x = Lit(500, -13) -> Lit(100, -2)
              [] x = Lit(900, 7) -> Lit(465, -3)
              [] x = Lit(-900, 7) -> Lit(465, -3)
              [] x = Lit(100, 8) -> Lit(873, -3)
              [] x = Lit(200, 8) -> Lit(524, -3)
              [] x = Lit(100, 306) -> Lit(-891, -3)
              [] x = Lit(-100, 306) -> Lit(-891, -3))
      [] fn = "tan" ->
           (CASE x = Lit(0, 0) -> Lit(0, 0)
              [] x = Lit(100, -2) -> Lit(155, -2)
              [] x = Lit(-100, -2) -> Lit(-155, -2)
              [] x = Lit(200, -2) -> Lit(-218, -2)
              [] x = Lit(100, -12) -> Lit(100, -12)
              [] x = Lit(500, -13) -> Lit(500, -13)
              [] x = Lit(900, 7) -> Lit(-190, -2)
              [] x = Lit(-900, 7) -> Lit(190, -2)
              [] x = Lit(100, 8) -> Lit(-558, -3)
              [] x = Lit(200, 8) -> Lit(-162, -2)
              [] x = Lit(100, 306) -> Lit(-508, -3)
              [] x = Lit(-100, 306) -> Lit(508, -3))

math(fn, x) == The({math_values(fn, v) : v \in {x}})

\* Binary primitives whose division returns 0.0, not 1.0, for a divisor near
\* zero (sub as in the code; the other names are not called with it)
Mut_C21_DivReturnsZero(name, a, b) ==
    IF name = "div"
    THEN (IF FLess(FAbs(b), Dec(1, -10)) THEN Dec(0, 0) ELSE Dec(1, 0))
    ELSE LET value == FAdd(a, FNeg(b))
         IN  IF IsInf(value) \/ IsNaN(value) THEN Dec(0, 0) ELSE value

\* primitives.py OPERATOR_MAP: the binary primitives
OPERATOR_MAP(name, a, b) ==
    LET bound == Dec(1, 10)
        safe_add ==
            LET value == FAdd(a, b)
            IN  IF IsInf(value) \/ IsNaN(value) THEN Dec(0, 0) ELSE value
        safe_sub ==
            LET value == FAdd(a, FNeg(b))
            IN  IF IsInf(value) \/ IsNaN(value) THEN Dec(0, 0) ELSE value
        safe_mul ==
            LET value == FMul(a, b)
            IN  IF IsInf(value) \/ IsNaN(value) \/ FLess(bound, FAbs(value))
                THEN Dec(0, 0) ELSE value
        protected_div ==
            IF FLess(FAbs(b), Dec(1, -10)) THEN Dec(1, 0)
            ELSE LET value == FDiv(a, b)
                 IN  IF IsInf(value) \/ IsNaN(value) THEN Dec(1, 0) ELSE value
        \* exp clamped to [-5, 5]; math.pow for a whole exponent, by repeated
        \* multiplication; its OverflowError is caught like an infinity
        protected_pow ==
            LET lo == Dec(-5, 0)
                hi == Dec(5, 0)
                upper == IF FLess(hi, b) THEN hi ELSE b
                exp == IF FLess(upper, lo) THEN lo ELSE upper
                n == CHOOSE k \in -5..5 : Dec(k, 0) = exp
                abs_base == FAdd(FAbs(a), Dec(1, -10))
                pw[k \in 0..5] ==
                    IF k = 0 THEN Dec(1, 0) ELSE FMul(pw[k - 1], abs_base)
                value == IF n >= 0 THEN pw[n] ELSE FDiv(Dec(1, 0), pw[-n])
            IN  IF IsInf(value) \/ IsNaN(value) \/ FLess(bound, FAbs(value))
                THEN Dec(1, 0) ELSE value
    IN  CASE name = "add" -> safe_add
          [] name = "sub" -> safe_sub
          [] name = "mul" -> safe_mul
          [] name = "div" -> protected_div
          [] name = "pow" -> protected_pow

\* primitives.py FUNCTION_MAP: the unary primitives
FUNCTION_MAP(name, x) ==
    LET protected_sin == math("sin", x)
        protected_cos == math("cos", x)
        protected_tan ==
            LET value == math("tan", x)
            IN  IF IsInf(value) \/ IsNaN(value) \/ FLess(Dec(1, 10), FAbs(value))
                THEN Dec(0, 0) ELSE value
        protected_sqrt ==
            LET value == math("sqrt", FAbs(x))
            IN  IF IsInf(value) \/ IsNaN(value) THEN Dec(0, 0) ELSE value
        protected_log ==
            IF ~FLess(Dec(0, 0), x) THEN Dec(0, 0)
            ELSE LET value == math("log", x)
                 IN  IF IsInf(value) \/ IsNaN(value) THEN Dec(0, 0) ELSE value
        protected_exp ==
            LET lo == Dec(-30, 0)
                hi == Dec(30, 0)
                upper == IF FLess(hi, x) THEN hi ELSE x
                x_clamped == IF FLess(upper, lo) THEN lo ELSE upper
                value == math("exp", x_clamped)
            IN  IF IsInf(value) \/ IsNaN(value) THEN Dec(1, 0) ELSE value
    IN  CASE name = "sin" -> protected_sin
          [] name = "cos" -> protected_cos
          [] name = "tan" -> protected_tan
          [] name = "sqrt" -> protected_sqrt
          [] name = "log" -> protected_log
          [] name = "exp" -> protected_exp
          [] name = "abs" -> FAbs(x)

Operators == {"add", "sub", "mul", "div", "pow"}
Functions == {"sin", "cos", "tan", "sqrt", "log", "exp", "abs"}

\* The argument lists a primitive is applied to: every pair (every one) of
\* the samples; pow with the exponents that the clamp leaves whole.
Arguments(name) ==
    IF name = "pow"
    THEN {<<a, b>> : a \in FloatSamples,
                     b \in {x \in FloatSamples :
                              \/ FLess(Dec(5, 0), FAbs(x))
                              \/ \E k \in -5..5 : x = Dec(k, 0)}}
    ELSE IF name \in Operators
    THEN {<<a, b>> : a \in FloatSamples, b \in FloatSamples}
    ELSE {<<x>> : x \in FloatSamples}

\* A compiled expression calls a primitive; the session keeps the call and
\* the value it returned.  The primitives are pure functions, so one call
\* is followed, from the initial state.
call_primitive(s) ==
    /\ \A t \in Sessions : result[t].status = "none"
    /\ \E name \in Operators \cup Functions :
         \E args \in Arguments(name) :
            result' = [result EXCEPT ![s] =
                [status |-> "value", primitive |-> name, args |-> args,
                 value |-> IF name \in Operators
                           THEN OPERATOR_MAP(name, args[1], args[2])
                           ELSE FUNCTION_MAP(name, args[1])]]
    /\ UNCHANGED <<config, evolution_sessions, running_engines, pc, engine,
                   sent, held, store, ghost>>

NextPrimitives == \E s \in Sessions : call_primitive(s)

SpecPrimitives == Init /\ [][NextPrimitives]_vars

\* C20: every protected primitive returns, for finite arguments, a finite
\* value of magnitude at most 1e10; and add, sub and mul return 0 whenever
\* the exact result is infinite or above 1e10 in magnitude.
C20_PrimitivesBounded ==
    \A s \in Sessions :
        result[s].status = "value" =>
           /\ ~IsInf(result[s].value)
           /\ ~FLess(Dec(1, 10), FAbs(result[s].value))
           /\ LET a == result[s].args[1]
                  b == result[s].args[2]
                  exact == CASE result[s].primitive = "add" -> FAdd(a, b)
                             [] result[s].primitive = "sub" -> FAdd(a, FNeg(b))
                             [] result[s].primitive = "mul" -> FMul(a, b)
              IN  result[s].primitive \in {"add", "sub", "mul"}
                     /\ (IsInf(exact) \/ FLess(Dec(1, 10), FAbs(exact)))
                  => result[s].value = Dec(0, 0)

\* ------------------------------------------- predictions and metrics, floats
\* gp.compile + call: the value of a prefix expression on a row of floats;
\* "x" is the first argument.
Applied(node, stack, row) ==
    IF node = "x" THEN <<row[1]>> \o stack
    ELSE IF node \in Operators
    THEN <<OPERATOR_MAP(node, stack[1], stack[2])>> \o SubSeq(stack, 3, Len(stack))
    ELSE <<FUNCTION_MAP(node, stack[1])>> \o SubSeq(stack, 2, Len(stack))

RECURSIVE CompiledFrom(_, _, _, _)
CompiledFrom(tree, i, stack, row) ==
    IF i = 0 THEN stack[1]
    ELSE CompiledFrom(tree, i - 1, Applied(tree[i], stack, row), row)

\* the result test of fitness._safe_eval_multi (fitness.py:156-159)
FiniteOrZero(value) ==
    IF IsFinite(value) /\ FLess(FAbs(value), Dec(1, 10)) THEN value ELSE Dec(0, 0)

\* fitness._safe_eval_multi
_safe_eval_multi(tree, row) ==
    The({FiniteOrZero(value) : value \in {CompiledFrom(tree, Len(tree), <<>>, row)}})

\* np.clip(v, lo, hi): a NaN stays a NaN
FClip(v, lo, hi) ==
    IF FLess(v, lo) THEN lo ELSE IF FLess(hi, v) THEN hi ELSE v

\* the last two statements of get_predictions_vectorized:
\* np.where(np.isfinite(p), p, 0) and np.clip(p, -1e10, 1e10)
WhereFiniteClip(p) ==
    FClip(IF IsFinite(p) THEN p ELSE Dec(0, 0), Dec(-1, 10), Dec(1, 10))

\* fitness.get_predictions_vectorized; X = [n_features, rows].  The
\* primitives catch every exception, so neither fallback is taken.
get_predictions_vectorized(tree, X) ==
    [i \in 1..Len(X.rows) |->
        The({WhereFiniteClip(p) :
                p \in {IF X.n_features = 1
                       THEN CompiledFrom(tree, Len(tree), <<>>, X.rows[i])
                       ELSE _safe_eval_multi(tree, X.rows[i])}})]

RECURSIVE FSum(_)
FSum(values) == IF values = <<>> THEN Dec(0, 0) ELSE FAdd(Head(values), FSum(Tail(values)))

\* (y_true - y_pred) ** 2 over the rows the mask keeps
MaskedSquares(y_true, y_pred, mask) ==
    LET kept == SelectSeq([i \in 1..Len(y_pred) |-> i], LAMBDA i : mask[i])
    IN  [k \in 1..Len(kept) |->
            LET d == FAdd(y_true[kept[k]], FNeg(y_pred[kept[k]]))
            IN  FMul(d, d)]

\* fitness.calculate_mse on floats
calculate_mse_np(y_true, y_pred) ==
    LET mask == [i \in 1..Len(y_pred) |-> IsFinite(y_pred[i])]
        squares == MaskedSquares(y_true, y_pred, mask)
    IN  IF Len(squares) = 0 THEN Dec(1, 10)
        ELSE LET mse == FDiv(FSum(squares), Dec(Len(squares), 0))
             IN  IF ~IsFinite(mse) THEN Dec(1, 10) ELSE mse

\* fitness.calculate_r_squared on floats
calculate_r_squared_np(y_true, y_pred) ==
    LET mask == [i \in 1..Len(y_pred) |->
                    IsFinite(y_pred[i]) /\ IsFinite(y_true[i])]
        kept == SelectSeq([i \in 1..Len(y_pred) |-> i], LAMBDA i : mask[i])
        y_true_valid == [k \in 1..Len(kept) |-> y_true[kept[k]]]
    IN  IF Len(kept) < 2 THEN Dec(0, 0)
        ELSE LET ss_res == FSum(MaskedSquares(y_true, y_pred, mask))
                 mean == FDiv(FSum(y_true_valid), Dec(Len(kept), 0))
                 ss_tot == FSum([k \in 1..Len(kept) |->
                              LET d == FAdd(y_true_valid[k], FNeg(mean))
                              IN  FMul(d, d)])
             IN  IF FLess(ss_tot, Dec(1, -10))
                 THEN (IF FLess(ss_res, Dec(1, -10)) THEN Dec(1, 0) ELSE Dec(0, 0))
                 ELSE FClip(FAdd(Dec(1, 0), FNeg(FDiv(ss_res, ss_tot))),
                            Dec(0, 0), Dec(1, 0))

\* The tree of scenario S6, in prefix order
ProtectedDivTree == <<"div", "x", "sub", "x", "x">>

\* The entries of an input matrix: zero, negative, positive and huge, and the
\* non-finite floats.
MatrixEntries ==
    {Dec(0, 0), Dec(-2, 0), Dec(1, 308), PosInf, NegInf, NaN}

\* The targets of the rows
TargetValues == {Dec(0, 0), Dec(2, 0)}

Matrices ==
    UNION {{[n_features |-> f, rows |-> rows] :
              rows \in [1..n -> [1..f -> MatrixEntries]]} :
           <<n, f>> \in (0..MaxRows) \X (1..MaxFeatures)}

\* The tree is evaluated on a matrix and scored against targets; the session
\* keeps the call and what it returned.  One call is followed, from the
\* initial state.
evaluate_tree(s) ==
    /\ \A t \in Sessions : result[t].status = "none"
    /\ \E X \in Matrices :
         \E y \in [1..Len(X.rows) -> TargetValues] :
         \E predictions \in {get_predictions_vectorized(ProtectedDivTree, X)} :
            result' = [result EXCEPT ![s] =
                    [status |-> "evaluated", X |-> X, y |-> y,
                     predictions |-> predictions,
                     mse |-> calculate_mse_np(y, predictions),
                     r_squared |-> calculate_r_squared_np(y, predictions)]]
    /\ UNCHANGED <<config, evolution_sessions, running_engines, pc, engine,
                   sent, held, store, ghost>>

NextEvaluate == \E s \in Sessions : evaluate_tree(s)

SpecEvaluate == Init /\ [][NextEvaluate]_vars

C22_SessionsIndependent ==
    /\ [][\E a \in Sessions :
            \A b \in Sessions \ {a} :
               /\ engine'[b] = engine[b]
               /\ evolution_sessions'[b] = evolution_sessions[b]]_vars
    /\ [](\A b \in Sessions :
            (engine[b].constructed /\ engine[b].should_stop)
               => ghost[b].stopped_at >= 0)

\* C22 witness: one session was stopped and has ended while the other, never
\* stopped, is running and further on
C22_Witness ==
    \E a, b \in Sessions :
        /\ a # b
        /\ ghost[a].stopped_at >= 0
        /\ evolution_sessions[a].status = "stopped"
        /\ result[a].status = "stopped"
        /\ b \in running_engines
        /\ engine[b].is_running /\ ~engine[b].should_stop
        /\ engine[b].current_generation > result[a].generations_completed

\* C23: external code never observes a half-built generation.  Wherever
\* evolve() is suspended (in the observer callback or at the yield after an
\* emission) the population has the configured number of trees, all with a
\* valid fitness, the emission just made is that of current_generation, and
\* both halls of fame have been updated with this population.
C23_SuspendedOnWholeGeneration ==
    \A s \in Sessions :
        pc[s] \in {"callback", "yield"} =>
           LET e == engine[s]
           IN  /\ Len(e.population) = Min(config[s].population_size, MAX_POPULATION)
               /\ \A i \in 1..Len(e.population) : e.population[i].valid
               /\ Len(sent[s]) > 0
               /\ sent[s][Len(sent[s])].type = "generation_update"
               /\ sent[s][Len(sent[s])].generation = e.current_generation
               /\ HofUpdate(e.hof, HOF_MAXSIZE, e.population) = e.hof
               /\ \A i \in 1..Len(e.population) :
                     FracGe(TrainR2(e.population[i].tree), 4, 5) =>
                        \/ Len(e.simplest_hof) >= HOF_MAXSIZE
                        \/ \E k \in 1..Len(e.simplest_hof) :
                              e.simplest_hof[k] = e.population[i]

\* C23 witness: a run suspended in its observer at generation 2, with a
\* mutated population, whose snapshot is taken there
C23_Witness ==
    \E s \in Sessions :
        /\ pc[s] = "callback"
        /\ config[s].mutation
        /\ engine[s].current_generation = 2
        /\ held[s].taken

\* ----------------------------------------------- the repository's test run
\* test_evolution.py: the engine is constructed with generations=10 (and
\* tournament_size=5, parsimony_coefficient=0.001) and evolve() is awaited
\* with an observer that only prints.  The loop test does not read the
\* population, so the run is followed with one individual and without
\* variation.
TestConfig ==
    Config("script", 1, 1, 10, FALSE, FALSE, 5) @@ [generations |-> GENERATIONS]

InitTest ==
    /\ config = [s \in Sessions |-> IF s = "s1" THEN TestConfig ELSE NoConfig]
    /\ evolution_sessions = [s \in Sessions |-> NoSession]
    /\ running_engines = {}
    /\ pc = [s \in Sessions |-> IF s = "s1" THEN "constructed" ELSE "none"]
    /\ engine = [s \in Sessions |-> IF s = "s1" THEN NewEngine ELSE NoEngine]
    /\ sent = [s \in Sessions |-> <<>>]
    /\ result = [s \in Sessions |-> NoResult]
    /\ held = [s \in Sessions |-> NoSnapshot]
    /\ store = <<>>
    /\ ghost = [s \in Sessions |-> NoGhost]

\* The test's observer never stops the engine; ClientStop is the stop() of
\* another observer, which lets the loop end.
NextTest ==
    \/ \E s \in Sessions : EvolveStart(s)
    \/ \E s \in Sessions : Generation(s)
    \/ \E s \in Sessions : ClientStop(s)
    \/ \E s \in Sessions : CallbackReturn(s)
    \/ \E s \in Sessions : YieldReturn(s)
    \/ \E s \in Sessions : EvolveReturn(s)

SpecTest == InitTest /\ [][NextTest]_vars

\* C24: the test's run completes: with generations=10 and an observer that
\* never calls stop(), evolve() runs its 10 generations and returns, so the
\* engine is never found in an eleventh generation.
C24_TestRunCompletes ==
    \A s \in Sessions :
        ("generations" \in DOMAIN config[s] /\ ghost[s].stopped_at < 0)
           => engine[s].current_generation <= config[s].generations

\* ---------------------------------------------------- the checkpoint manager
\* The saves made so far, and the second of the latest: datetime.now() does
\* not go back.
SavesMade ==
    LET counts == [s \in Sessions |-> Len(ghost[s].saved_ids)]
    IN  counts["s1"] + counts["s2"]

LastSecond ==
    LET seconds == UNION {{ghost[s].saved_ids[i][2] :
                             i \in 1..Len(ghost[s].saved_ids)} : s \in Sessions}
    IN  IF seconds = {} THEN 1 ELSE CHOOSE m \in seconds : \A x \in seconds : x <= m

\* CheckpointManager.save_checkpoint(session_id, state): the id is the
\* session id and the clock's second; both files of the id are written, over
\* whatever was there.  created_at (the full timestamp) is modelled by the
\* number of the save.
ManagerSaved(st, session_id, second, state, created_at) ==
    Saved(st, <<session_id, second>>,
          state @@ [session_id |-> session_id, created_at |-> created_at])

\* CheckpointManager.list_checkpoints(session_id): the checkpoints whose
\* metadata loads and whose .pkl exists, newest first by created_at
RECURSIVE NewestFirst(_, _)
NewestFirst(st, ids) ==
    IF ids = {} THEN <<>>
    ELSE LET newest == CHOOSE i \in ids :
                          \A j \in ids : st[j].created_at <= st[i].created_at
         IN  <<newest>> \o NewestFirst(st, ids \ {newest})

ListCheckpoints(st, session_id) ==
    NewestFirst(st, {id \in list_checkpoints(st) : st[id].session_id = session_id})

\* A cleanup that keeps the oldest checkpoints
Mut_C26_KeepsOldest(st, session_id, keep_count) ==
    LET checkpoints == ListCheckpoints(st, session_id)
        n == Len(checkpoints)
    IN  IF n <= keep_count THEN [store |-> st, deleted |-> 0]
        ELSE LET to_delete == {checkpoints[i] : i \in 1..(n - keep_count)}
             IN  [store |-> [i \in DOMAIN st \ to_delete |-> st[i]],
                  deleted |-> Cardinality(to_delete)]

\* CheckpointManager.cleanup_old_checkpoints(session_id, keep_count): the
\* store it leaves and the number it returns
cleanup_old_checkpoints(st, session_id, keep_count) ==
    LET checkpoints == ListCheckpoints(st, session_id)
    IN  IF Len(checkpoints) <= keep_count THEN [store |-> st, deleted |-> 0]
        ELSE LET to_delete == {checkpoints[i] : i \in (keep_count + 1)..Len(checkpoints)}
             IN  [store |-> [i \in DOMAIN st \ to_delete |-> st[i]],
                  deleted |-> Cardinality(to_delete)]

manager_save(s) ==
    /\ Len(ghost[s].saved_ids) < MaxSaves
    /\ \E second \in LastSecond..MaxSecond :
          /\ store' = ManagerSaved(store, s, second,
                                   [generation |-> SavesMade], SavesMade + 1)
          /\ ghost' = [ghost EXCEPT ![s].saved_ids = Append(@, <<s, second>>)]
    /\ UNCHANGED <<config, evolution_sessions, running_engines, pc, engine, sent,
                   result, held>>

\* DELETE /checkpoint/{checkpoint_id}
manager_delete(id) ==
    /\ id \in DOMAIN store
    /\ store' = Deleted(store, id)
    /\ UNCHANGED <<config, evolution_sessions, running_engines, pc, engine, sent,
                   result, held, ghost>>

\* A cleanup of a session's checkpoints; the session keeps the number the
\* call returned.
manager_cleanup(s, keep_count) ==
    LET done == cleanup_old_checkpoints(store, s, keep_count)
    IN  /\ store' = done.store
        /\ result' = [result EXCEPT ![s] =
                         [status |-> "cleanup", keep_count |-> keep_count,
                          deleted |-> done.deleted]]
        /\ UNCHANGED <<config, evolution_sessions, running_engines, pc, engine,
                       sent, held, ghost>>

NextManager ==
    \/ \E s \in Sessions : manager_save(s)
    \/ \E id \in DOMAIN store : manager_delete(id)
    \/ \E s \in Sessions, keep_count \in 0..MaxKeep : manager_cleanup(s, keep_count)

SpecManager == Init /\ [][NextManager]_vars

\* C25: every save returns an id that no earlier save returned, so that a
\* save never writes over an existing checkpoint.
C25_CheckpointIdsUnique ==
    \A s \in Sessions :
        \A i, j \in 1..Len(ghost[s].saved_ids) :
            i # j => ghost[s].saved_ids[i] # ghost[s].saved_ids[j]

\* C26: a cleanup leaves, for its session, exactly the min(keep_count, n)
\* newest of the n checkpoints listed before it, leaves the checkpoints of
\* every other session as they were, and returns the number it removed.
C26_CleanupKeepsNewest ==
    [][\A s \in Sessions, keep_count \in 0..MaxKeep :
          manager_cleanup(s, keep_count) =>
             LET before == ListCheckpoints(store, s)
                 kept == Min(keep_count, Len(before))
             IN  /\ ListCheckpoints(store', s) = SubSeq(before, 1, kept)
                 /\ \A id \in DOMAIN store :
                       id[1] # s => (id \in DOMAIN store' /\ store'[id] = store[id])
                 /\ DOMAIN store' \subseteq DOMAIN store
                 /\ result'[s].deleted = Len(before) - kept]_vars

\* C26 witness: a cleanup has removed checkpoints of a session and kept
\* some, while the other session has checkpoints too
C26_Witness ==
    \E s, t \in Sessions :
        /\ s # t
        /\ result[s].status = "cleanup"
        /\ result[s].deleted >= 1
        /\ result[s].keep_count >= 1
        /\ Len(ListCheckpoints(store, s)) = result[s].keep_count
        /\ Len(ListCheckpoints(store, t)) >= 1


\* ------------------------------------------------- the final Pareto front
\* The test rows an engine can hold: the rows the random split of the
\* uploaded data left out of training.
TestRows ==
    {[X |-> X_test, y |-> y_test],
     [X |-> <<0, 10>>, y |-> <<0, 10>>],
     [X |-> <<10, 20>>, y |-> <<10, 40>>]}

\* one hall member dominates another on (complexity, test R-squared): no more
\* nodes and no lower test R-squared, one of the two strictly
Dominates(a, b, rows) ==
    LET ra == calculate_r_squared(rows.y, Predictions(a.tree, rows.X))
        rb == calculate_r_squared(rows.y, Predictions(b.tree, rows.X))
    IN  /\ Size(a.tree) <= Size(b.tree)
        /\ ra[1] * rb[2] >= rb[1] * ra[2]
        /\ \/ Size(a.tree) < Size(b.tree)
           \/ ra[1] * rb[2] > rb[1] * ra[2]

\* self._calculate_pareto_front(hof) of the result (engine.py:552) for an
\* engine whose test rows are `rows`
calculate_front(s) ==
    /\ engine[s].constructed
    /\ Len(engine[s].hof) > 0
    /\ result[s].status = "none"
    /\ \E rows \in TestRows :
          result' = [result EXCEPT ![s] =
                        [status |-> "front", rows |-> rows,
                         hall_of_fame |-> engine[s].hof,
                         pareto_front |->
                             ParetoScanOn(SortByComplexity(engine[s].hof), 1, <<>>,
                                          rows.X, rows.y)]]
    /\ UNCHANGED <<config, evolution_sessions, running_engines, pc, engine, sent, held,
                   store, ghost>>

NextPareto ==
    \/ \E s \in Sessions : /\ engine[s].constructed
                            /\ Len(engine[s].hof) < MaxFrontHall
                            /\ result[s].status = "none"
                            /\ hof_update(s)
    \/ \E s \in Sessions : calculate_front(s)

SpecPareto == InitHof /\ [][NextPareto]_vars

\* C27: no member of the final Pareto front is dominated by a member of the
\* best-fitness hall of fame it was computed from: for no emitted tree is
\* there a hall tree with complexity <= and test R-squared >= its own, one of
\* the two strict.
C27_ParetoFrontNonDominated ==
    \A s \in Sessions :
        result[s].status = "front"
            => \A i \in 1..Len(result[s].pareto_front) :
                   \A j \in 1..Len(result[s].hall_of_fame) :
                       ~Dominates(result[s].hall_of_fame[j], result[s].pareto_front[i],
                                  result[s].rows)


\* ------------------------------------------- variation of one offspring pair
\* An engine of the deepest trees (max_depth 4) with both variation
\* operators at work.
VariationConfig == Config("script", 2, 4, 1, TRUE, TRUE, 2)

InitVariation ==
    /\ config = [s \in Sessions |-> IF s = "s1" THEN VariationConfig ELSE NoConfig]
    /\ evolution_sessions = [s \in Sessions |-> NoSession]
    /\ running_engines = {}
    /\ pc = [s \in Sessions |-> IF s = "s1" THEN "loop" ELSE "none"]
    /\ engine = [s \in Sessions |-> IF s = "s1" THEN NewEngine ELSE NoEngine]
    /\ sent = [s \in Sessions |-> <<>>]
    /\ result = [s \in Sessions |-> NoResult]
    /\ held = [s \in Sessions |-> NoSnapshot]
    /\ store = <<>>
    /\ ghost = [s \in Sessions |-> NoGhost]

\* The clones that selection hands to the first generation's variation: the
\* evaluated members of the initial population (engine.py:417-430, 453-454).
SelectedClones(cfg) ==
    {WithFitness(Individual(t),
                 _evaluate_individual(t, cfg.parsimony_coefficient, PARSIMONY_PERIOD)) :
        t \in toolbox_individual(cfg)}

\* One pair child1, child2 of the offspring through the crossover loop, the
\* mutation loop and _prune_population (engine.py:456-470).  The result
\* keeps the pair as it entered (parents), after crossover (crossed), after
\* mutation (varied) and as the prune left its two slots (slots).
vary_pair(s) ==
    /\ engine[s].constructed
    /\ result[s].status = "none"
    /\ LET cfg == config[s]
       IN  \E a \in SelectedClones(cfg), b \in SelectedClones(cfg) :
           \E crossed \in CrossoverPair(a, b, cfg.crossover) :
           \E varied \in MutateFrom(crossed, 1, cfg.mutation, toolbox_expr_mut(cfg)) :
           \E slots \in _prune_population(varied, toolbox_individual(cfg)) :
              result' = [result EXCEPT ![s] =
                            [status |-> "varied", parents |-> <<a, b>>,
                             crossed |-> crossed, varied |-> varied, slots |-> slots]]
    /\ UNCHANGED <<config, evolution_sessions, running_engines, pc, engine, sent, held,
                   store, ghost>>

NextVariation == \E s \in Sessions : vary_pair(s)

SpecVariation == InitVariation /\ [][NextVariation]_vars

\* C28: whenever crossover or mutation has produced a tree of more than
\* MAX_TREE_SIZE nodes, the offspring slot ends up holding an unchanged copy
\* of a parent that entered the variation: neither the oversized tree nor a
\* newly generated one.
C28_OversizedChildReplacedByParent ==
    \A s \in Sessions :
        result[s].status = "varied" =>
            \A k \in 1..2 :
                (/\ result[s].varied[k].tree # result[s].parents[k].tree
                 /\ Size(result[s].varied[k].tree) > MAX_TREE_SIZE)
                => result[s].slots[k].tree
                      \in {result[s].parents[1].tree, result[s].parents[2].tree}


\* ------------------------------------------- fitness read by selection
\* C29: selection never reads an invalid fitness.  At every test of the loop
\* condition, where the next selection starts, every member of the
\* population has a valid fitness; and a generation leaves in the population
\* only unchanged clones of the members it selected from and trees that
\* carry the fitness of their own evaluation under the generation's
\* parsimony: what variation touched, and what the prune generated, was
\* invalidated and evaluated before the population was replaced.
C29_SelectionReadsValidFitness ==
    /\ [](\A s \in Sessions :
            pc[s] = "loop" =>
                /\ Len(engine[s].population) > 0
                /\ \A i \in 1..Len(engine[s].population) : engine[s].population[i].valid)
    /\ [][\A s \in Sessions :
            (pc[s] = "loop"
               /\ engine'[s].current_generation = engine[s].current_generation + 1)
            => \A i \in 1..Len(engine'[s].population) :
                  LET ind == engine'[s].population[i]
                  IN  /\ ind.valid
                      /\ \/ \E j \in 1..Len(engine[s].population) :
                               ind = engine[s].population[j]
                         \/ ind.fit = _evaluate_individual(
                                          ind.tree, config[s].parsimony_coefficient,
                                          engine'[s].adaptive_parsimony)]_vars

\* C29 witness: the loop test after the second generation, reached with a
\* population that holds a tree made by variation, evaluated
C29_Witness ==
    \E s \in Sessions :
        /\ pc[s] = "loop"
        /\ engine[s].current_generation = 2
        /\ \E i \in 1..Len(engine[s].population) :
              /\ engine[s].population[i].tree \notin toolbox_individual(config[s])
              /\ engine[s].population[i].valid


\* ------------------------------- replacement in the simplest-good hall
\* a hall without its k-th member
WithoutMember(hof, k) == SubSeq(hof, 1, k - 1) \o SubSeq(hof, k + 1, Len(hof))

\* the node count of the largest member of a hall
LargestSize(hof) ==
    CHOOSE n \in {Size(hof[i].tree) : i \in 1..Len(hof)} :
        \A i \in 1..Len(hof) : Size(hof[i].tree) <= n

\* C30: an update that changes a full simplest-good hall of fame (10
\* members) puts in one tree with strictly fewer nodes than the hall's
\* largest member and takes a largest member out: the hall still has 10
\* members.
C30_FullHallEvictsLargest ==
    [][\A s \in Sessions :
          (/\ engine[s].constructed
           /\ engine'[s].constructed
           /\ Len(engine[s].simplest_hof) = HOF_MAXSIZE
           /\ engine'[s].simplest_hof # engine[s].simplest_hof)
          => LET old == engine[s].simplest_hof
                 new == engine'[s].simplest_hof
             IN  /\ Len(new) = HOF_MAXSIZE
                 /\ \E k \in 1..Len(old), m \in 1..Len(new) :
                       /\ Size(old[k].tree) = LargestSize(old)
                       /\ WithoutMember(new, m) = WithoutMember(old, k)
                       /\ Size(new[m].tree) < LargestSize(old)]_vars


\* ------------------------------------------------- the parsimonious pick
\* Training rows of two uploads: y = 2x, and y = 2x + 1 over a narrow x,
\* where add(x, x) has a train R-squared of 0.875.
TrainRows ==
    {[X |-> X_train, y |-> y_train],
     [X |-> <<1, 2, 3, 4, 5>>, y |-> <<3, 5, 7, 9, 11>>]}

\* the fitness of a tree on given training rows (engine.py:263-288), in tens
FitnessOn(tree, rows, base) ==
    LET fitness == calculate_mse(rows.y, Predictions(tree, rows.X))
                     + ComplexityPenalty(base, PARSIMONY_PERIOD, Size(tree))
    IN  ClampFitness(IF Size(tree) > MAX_TREE_SIZE
                     THEN fitness + OVERSIZE_PENALTY ELSE fitness)

\* The halls an engine with these rows and parsimony_coefficient = 0.0 can
\* hold, up to MaxBestHall members: evaluated trees in ascending order of
\* fitness; those of the simplest-good hall also have a train R-squared of
\* 0.8 or more, and none of them is fitter than the best-fitness hall's top
\* member (hof.update saw every population that _update_simplest_hof saw).
BestCandidates(rows) ==
    {WithFitness(Individual(t), FitnessOn(t, rows, 0)) : t \in HofCandidateTrees}

HallsOf(members) ==
    {h \in UNION {[1..n -> members] : n \in 0..MaxBestHall} :
        \A i \in 1..(Len(h) - 1) : h[i].fit <= h[i + 1].fit}

GoodCandidates(rows) ==
    {c \in BestCandidates(rows) :
        FracGe(calculate_r_squared(rows.y, Predictions(c.tree, rows.X)), 4, 5)}

\* best = self._get_best_parsimonious(hof, simplest_hof) (engine.py:490);
\* the session keeps the call and what it returned.
get_best(s) ==
    /\ engine[s].constructed
    /\ result[s].status = "none"
    /\ \E rows \in TrainRows :
       \E hof \in HallsOf(BestCandidates(rows)) \ {<<>>} :
       \E simplest_hof \in HallsOf(GoodCandidates(rows)) :
          /\ \A i \in 1..Len(simplest_hof) : hof[1].fit <= simplest_hof[i].fit
          /\ result' = [result EXCEPT ![s] =
                        [status |-> "best", rows |-> rows, hof |-> hof,
                         simplest_hof |-> simplest_hof,
                         best |-> BestParsimoniousOn(hof, simplest_hof, rows.X, rows.y)]]
    /\ UNCHANGED <<config, evolution_sessions, running_engines, pc, engine, sent, held,
                   store, ghost>>

NextBest == \E s \in Sessions : get_best(s)

SpecBest == InitHof /\ [][NextBest]_vars

\* the train R-squared of a tree on the rows of a recorded call
RecordedR2(r, tree) == calculate_r_squared(r.rows.y, Predictions(tree, r.rows.X))

\* the three conditions under which the simplest-good hall's top member is
\* reported
SimplestQualifies(r) ==
    /\ Len(r.simplest_hof) > 0
    /\ LET r2_simple == RecordedR2(r, r.simplest_hof[1].tree)
           r2_best == RecordedR2(r, r.hof[1].tree)
       IN  /\ r2_simple[2] = r2_best[2]
           /\ 100 * r2_simple[1] >= 95 * r2_best[1]
    /\ Size(r.simplest_hof[1].tree) < Size(r.hof[1].tree)

\* C31: the best that is reported is the top member of the simplest-good
\* hall exactly when that hall is not empty, its top member's train
\* R-squared is at least 0.95 times that of the best-fitness hall's top
\* member, and it has strictly fewer nodes than that member; in every other
\* case it is the top member of the best-fitness hall.
C31_BestIsParsimoniousPick ==
    \A s \in Sessions :
        result[s].status = "best" =>
            result[s].best = IF SimplestQualifies(result[s])
                             THEN result[s].simplest_hof[1] ELSE result[s].hof[1]

\* C31 witness: the simplest-good hall's top member was reported instead of
\* a larger fitness-best tree
C31_Witness ==
    \E s \in Sessions :
        /\ result[s].status = "best"
        /\ SimplestQualifies(result[s])
        /\ result[s].best = result[s].simplest_hof[1]
        /\ result[s].best.tree # result[s].hof[1].tree


\* ------------------------------------------------ lexicographic tournament
\* An engine with parsimony_coefficient 0.01, where a terminal and a
\* three-node tree come within epsilon of each other in fitness.
SelectConfig == Config("script", MaxSelectPop, 1, 10, FALSE, FALSE, 2)

SelectCandidates ==
    {WithFitness(Individual(t),
                 _evaluate_individual(t, SelectConfig.parsimony_coefficient,
                                      PARSIMONY_PERIOD)) :
        t \in {u \in HofCandidateTrees : Size(u) <= 3}
                \cup {<<"add", "add", "x", "x", "c1">>}}

\* toolbox.select(population, len(population)) (engine.py:453) on an
\* evaluated population, with a tournament smaller than the population and
\* with the default one of 7, which is larger.  The session keeps the call
\* and the population indexes of the individuals returned.
select(s) ==
    /\ engine[s].constructed
    /\ result[s].status = "none"
    /\ \E population \in [1..MaxSelectPop -> SelectCandidates],
          tournsize \in {SelectConfig.tournament_size, 7} :
       \E selected \in sel_lexicographic(population, Len(population), tournsize) :
          result' = [result EXCEPT ![s] =
                        [status |-> "selected", population |-> population,
                         k |-> Len(population), tournsize |-> tournsize,
                         selected |-> selected]]
    /\ UNCHANGED <<config, evolution_sessions, running_engines, pc, engine, sent, held,
                   store, ghost>>

NextSelect == \E s \in Sessions : select(s)

SpecSelect == InitHof /\ [][NextSelect]_vars

\* fitness f lies within epsilon * max(1, |best|) of best, epsilon = 0.05;
\* fitnesses are in tens
InBand(f, best) == 20 * Abs(f - best) < Max(10, Abs(best))

\* C32: each of the k winners returned is a member of a tournament sample
\* of min(tournsize, |population|) distinct members, its fitness lies within
\* epsilon * max(1, |f*|) of the sample's least fitness f*, and no member of
\* the sample inside that band has strictly fewer nodes; exactly k
\* individuals are returned.
C32_LexicographicTournament ==
    \A s \in Sessions :
        result[s].status = "selected" =>
            LET r == result[s]
                pop == r.population
            IN  /\ Len(r.selected) = r.k
                /\ \A n \in 1..Len(r.selected) :
                      \E sample \in SUBSET (1..Len(pop)) :
                         /\ Cardinality(sample) = Min(r.tournsize, Len(pop))
                         /\ r.selected[n] \in sample
                         /\ \E b \in sample :
                               /\ \A j \in sample : pop[b].fit <= pop[j].fit
                               /\ InBand(pop[r.selected[n]].fit, pop[b].fit)
                               /\ \A j \in sample :
                                     InBand(pop[j].fit, pop[b].fit)
                                     => Size(pop[j].tree)
                                          >= Size(pop[r.selected[n]].tree)

\* C32 witness: a tournament of two was won by the shorter tree although the
\* other aspirant was fitter
C32_Witness ==
    \E s \in Sessions :
        /\ result[s].status = "selected"
        /\ result[s].tournsize = 2
        /\ \E n \in 1..Len(result[s].selected), j \in 1..Len(result[s].population) :
              LET pop == result[s].population
                  w == result[s].selected[n]
              IN  /\ pop[j].fit < pop[w].fit
                  /\ Size(pop[w].tree) < Size(pop[j].tree)
                  /\ \A i \in 1..Len(pop) : i \notin {j, w} => pop[i].fit > pop[w].fit + 50


\* ------------------------------------------------ adaptive parsimony schedule
\* the coefficient adaptive_parsimony of an engine, in 200ths of a unit
Coefficient(cfg, e) == cfg.parsimony_coefficient * e.adaptive_parsimony

\* C33: in every generation g >= 1 the trees evaluated in that generation are
\* scored with adaptive_parsimony = base_parsimony * min(1 + g/200, 5.0);
\* the coefficient is non-decreasing in g, never exceeds 5 * base_parsimony,
\* and is reset to base_parsimony at the start of each evolve().
C33_AdaptiveParsimonySchedule ==
    /\ [](\A s \in Sessions :
            (engine[s].constructed /\ engine[s].current_generation >= 1) =>
                Coefficient(config[s], engine[s])
                    <= PARSIMONY_FACTOR_CAP * config[s].parsimony_coefficient)
    /\ [][\A s \in Sessions :
            /\ (pc[s] = "loop"
                  /\ engine'[s].current_generation = engine[s].current_generation + 1)
               => LET g == engine'[s].current_generation
                      scheduled == Min(PARSIMONY_PERIOD + g, PARSIMONY_FACTOR_CAP)
                  IN  /\ engine'[s].adaptive_parsimony = scheduled
                      /\ Coefficient(config[s], engine'[s])
                            >= Coefficient(config[s], engine[s])
                      /\ \A i \in 1..Len(engine'[s].population) :
                            LET ind == engine'[s].population[i]
                            IN  \/ \E j \in 1..Len(engine[s].population) :
                                      ind = engine[s].population[j]
                                \/ ind.fit = _evaluate_individual(
                                        ind.tree, config[s].parsimony_coefficient,
                                        scheduled)
            /\ (engine[s].constructed /\ ~engine[s].is_running
                  /\ engine'[s].constructed /\ engine'[s].is_running)
               => /\ engine'[s].current_generation = 0
                  /\ engine'[s].adaptive_parsimony = PARSIMONY_PERIOD]_vars


\* ------------------------------------------------ prediction sanitization
\* Trees whose raw value is the first feature and its double.
RawTrees == {<<"x">>, <<"add", "x", "x">>}

\* get_predictions_vectorized(individual, toolbox, X) on one matrix; the
\* session keeps the call, the value of the compiled function on each row
\* and the vector returned.
predict(s) ==
    /\ \A t \in Sessions : result[t].status = "none"
    /\ \E tree \in RawTrees, X \in Matrices :
         \E predictions \in {get_predictions_vectorized(tree, X)} :
            result' = [result EXCEPT ![s] =
                    [status |-> "predicted", tree |-> tree, X |-> X,
                     raw |-> [i \in 1..Len(X.rows) |->
                                 CompiledFrom(tree, Len(tree), <<>>, X.rows[i])],
                     predictions |-> predictions]]
    /\ UNCHANGED <<config, evolution_sessions, running_engines, pc, engine,
                   sent, held, store, ghost>>

NextPredict == \E s \in Sessions : predict(s)

SpecPredict == Init /\ [][NextPredict]_vars

\* C34: for any tree and any X of shape (m, n) the evaluator returns a vector
\* of length m in which each non-finite raw prediction is 0 and each finite
\* raw prediction v is min(max(v, -1e10), 1e10): a finite raw value of
\* magnitude above 1e10 is clipped, not zeroed, whether n = 1 or n > 1.
C34_SanitizationUniform ==
    \A s \in Sessions :
        result[s].status = "predicted" =>
            /\ Len(result[s].predictions) = Len(result[s].X.rows)
            /\ \A i \in 1..Len(result[s].predictions) :
                  LET v == result[s].raw[i]
                  IN  result[s].predictions[i] =
                         IF ~IsFinite(v) THEN Dec(0, 0)
                         ELSE IF FLess(Dec(1, 10), v) THEN Dec(1, 10)
                         ELSE IF FLess(v, Dec(-1, 10)) THEN Dec(-1, 10)
                         ELSE v


\* ------------------------------------------------ fields of the final message
StoppedFields ==
    {"status", "elapsed_time", "generations_completed", "hall_of_fame",
     "pareto_front", "best_equation", "best_fitness"}

\* C35: every evolution_stopped message sent for a session, started fresh or
\* restored from a checkpoint, carries all of the fields status,
\* elapsed_time, generations_completed, hall_of_fame, pareto_front,
\* best_equation and best_fitness.
C35_StoppedCarriesAllFields ==
    \A s \in Sessions :
        \A i \in 1..Len(sent[s]) :
            sent[s][i].type = "evolution_stopped"
                => StoppedFields \subseteq DOMAIN sent[s][i]


\* ------------------------------------------------ deletion of a checkpoint
\* Path.exists() of one of the two files of an id ("pkl" or "meta")
Exists(st, id, file) == id \in DOMAIN st /\ st[id][file] # "absent"

\* Path.unlink() of one file of an id; an id with no file left is no longer
\* in the directory
Unlinked(st, id, file) ==
    LET other == IF file = "pkl" THEN "meta" ELSE "pkl"
    IN  IF st[id][other] = "absent" THEN Deleted(st, id)
        ELSE [st EXCEPT ![id][file] = "absent"]

\* A delete that reports the .pkl file only
Mut_C36_ReportsPickleOnly(st, id) ==
    [store |-> Deleted(st, id), deleted |-> Exists(st, id, "pkl")]

\* CheckpointManager.delete_checkpoint(checkpoint_id): the directory it
\* leaves and the value it returns
delete_checkpoint(st, id) ==
    LET had_pkl == Exists(st, id, "pkl")
        st1 == IF had_pkl THEN Unlinked(st, id, "pkl") ELSE st
        had_meta == Exists(st1, id, "meta")
        st2 == IF had_meta THEN Unlinked(st1, id, "meta") ELSE st1
    IN  [store |-> st2, deleted |-> had_pkl \/ had_meta]

\* The ids deleted, and the conditions of an id's two files in a directory
DeleteIds == {<<"s1", 1>>, <<"s2", 1>>}

FileConditions ==
    {CheckpointFiles([generation |-> 0], pkl, meta, IF meta = "ok" THEN 0 ELSE -1) :
        <<pkl, meta>> \in ({"ok", "broken", "absent"} \X {"ok", "broken", "absent"})
                              \ {<<"absent", "absent">>}}

\* The directories the manager is opened on
InitDelete ==
    /\ config = [s \in Sessions |-> NoConfig]
    /\ evolution_sessions = [s \in Sessions |-> NoSession]
    /\ running_engines = {}
    /\ pc = [s \in Sessions |-> "none"]
    /\ engine = [s \in Sessions |-> NoEngine]
    /\ sent = [s \in Sessions |-> <<>>]
    /\ result = [s \in Sessions |-> NoResult]
    /\ held = [s \in Sessions |-> NoSnapshot]
    /\ store \in UNION {[ids -> FileConditions] : ids \in SUBSET DeleteIds}
    /\ ghost = [s \in Sessions |-> NoGhost]

\* A client calls delete_checkpoint(id) once and keeps the value returned.
delete(s, id) ==
    /\ result[s].status = "none"
    /\ LET done == delete_checkpoint(store, id)
       IN  /\ store' = done.store
           /\ result' = [result EXCEPT ![s] =
                            [status |-> "deleted", id |-> id,
                             deleted |-> done.deleted]]
    /\ UNCHANGED <<config, evolution_sessions, running_engines, pc, engine, sent,
                   held, ghost>>

NextDelete == \E s \in Sessions, id \in DeleteIds : delete(s, id)

SpecDelete == InitDelete /\ [][NextDelete]_vars

\* C36: delete_checkpoint(id) returns True if and only if at least one of
\* the two files of id existed; afterwards neither file exists, a load of id
\* raises FileNotFoundError, the list no longer contains id, every other
\* checkpoint is unchanged, and a second delete of id returns False.
C36_DeleteCheckpoint ==
    [][\A s \in Sessions, id \in DeleteIds :
          delete(s, id) =>
             /\ result'[s].deleted
                   <=> (id \in DOMAIN store
                          /\ (store[id].pkl # "absent" \/ store[id].meta # "absent"))
             /\ id \notin DOMAIN store'
             /\ ~Loadable(store', id)
             /\ id \notin list_checkpoints(store')
             /\ \A other \in DOMAIN store \ {id} :
                   other \in DOMAIN store' /\ store'[other] = store[other]
             /\ DOMAIN store' \subseteq DOMAIN store
             /\ (\E t \in Sessions :
                    result[t].status = "deleted" /\ result[t].id = id)
                => ~result'[s].deleted]_vars

\* C36 witness: an id of which only the metadata file existed was deleted,
\* which returned True, and deleted again, which returned False, while the
\* other checkpoint stayed listed
C36_Witness ==
    \E s, t \in Sessions :
        /\ result[s].status = "deleted" /\ result[s].deleted
        /\ result[t].status = "deleted" /\ ~result[t].deleted
        /\ result[s].id = result[t].id
        /\ \E other \in DeleteIds \ {result[s].id} : other \in list_checkpoints(store)


\* ------------------------------------------------ a stop at the session level
\* C37: once POST /stop/{session_id} has returned for an existing session,
\* the session's generation loop eventually terminates and its status never
\* becomes "running" afterwards, including when the stop arrived while the
\* session was pending, its task not yet having created the engine.
C37_StopNeverLost ==
    /\ [][\A s \in Sessions :
            evolution_sessions[s].status = "stopped"
                => evolution_sessions'[s].status # "running"]_vars
    /\ \A s \in Sessions :
          (evolution_sessions[s].status = "stopped")
              ~> (pc[s] \in {"final_send", "done"})


\* ------------------------------------------------ the connection manager
WebSockets == 1..MaxConnections

\* ConnectionManager.__init__ for one session id, with no broadcast made.
\* keyed: session_id in active_connections; active: the set under the key;
\* status: where the broadcast is ("idle": not called, "sending": suspended
\* in connection.send_json, "returned", "raised"); si_used: the size of the
\* set when its iterator was made; detached: the iterated set was emptied
\* and its key deleted; remaining: the members the iterator has yet to
\* yield; began, ended: the set at the call and at the return; delivered,
\* dead: the connections whose send returned and raised.
NoConnections ==
    [status |-> "idle", keyed |-> FALSE, active |-> {}, si_used |-> 0,
     detached |-> FALSE, remaining |-> {}, current |-> 0, began |-> {},
     ended |-> {}, delivered |-> {}, dead |-> {}]

InitBroadcast ==
    /\ config = [s \in Sessions |-> NoConfig]
    /\ evolution_sessions = [s \in Sessions |-> NoSession]
    /\ running_engines = {}
    /\ pc = [s \in Sessions |-> "none"]
    /\ engine = [s \in Sessions |-> NoEngine]
    /\ sent = [s \in Sessions |-> <<>>]
    /\ result = [s \in Sessions |-> IF s = "s1" THEN NoConnections ELSE NoResult]
    /\ held = [s \in Sessions |-> NoSnapshot]
    /\ store = <<>>
    /\ ghost = [s \in Sessions |-> NoGhost]

\* ConnectionManager.connect, from the return of websocket.accept().  A
\* member added while the set is iterated may or may not be yielded.
ws_connect(s, c) ==
    /\ result[s].status # "none"
    /\ c \notin result[s].active
    /\ \E yielded \in BOOLEAN :
          result' = [result EXCEPT ![s] =
              [@ EXCEPT !.keyed = TRUE,
                        !.active = @ \cup {c},
                        !.remaining =
                            IF result[s].status = "sending" /\ result[s].keyed
                               /\ ~result[s].detached /\ yielded
                            THEN @ \cup {c} ELSE @]]
    /\ UNCHANGED <<config, evolution_sessions, running_engines, pc, engine, sent,
                   held, store, ghost>>

\* ConnectionManager.disconnect (the `finally` of evolution_websocket)
ws_disconnect(s, c) ==
    /\ result[s].status # "none"
    /\ c \in result[s].active
    /\ LET emptied == result[s].active = {c}
       IN  result' = [result EXCEPT ![s] =
              [@ EXCEPT !.active = @ \ {c},
                        !.keyed = ~emptied,
                        !.detached = @ \/ (emptied /\ result[s].status = "sending"),
                        !.remaining = @ \ {c}]]
    /\ UNCHANGED <<config, evolution_sessions, running_engines, pc, engine, sent,
                   held, store, ghost>>

\* the end of broadcast: the dead connections are discarded from the set
\* under the key (lines 55-56)
Cleaned(r) ==
    IF r.dead = {} THEN [r EXCEPT !.status = "returned", !.ended = r.active]
    ELSE IF ~r.keyed THEN [r EXCEPT !.status = "raised"]
    ELSE [r EXCEPT !.status = "returned", !.active = @ \ r.dead,
                   !.ended = r.active \ r.dead]

\* One step of `for connection in self.active_connections[session_id]`: the
\* set iterator raises RuntimeError when the size of its set is no longer
\* what it was when the iterator was made; otherwise it yields a member,
\* which is sent to, or it is exhausted.
Iterated(r) ==
    IF (IF r.detached THEN 0 ELSE Cardinality(r.active)) # r.si_used
    THEN {[r EXCEPT !.status = "raised"]}
    ELSE IF r.remaining = {} THEN {Cleaned(r)}
    ELSE {[r EXCEPT !.status = "sending", !.current = c, !.remaining = @ \ {c}] :
             c \in r.remaining}

\* ConnectionManager.broadcast is called, and runs to its first await or
\* to its return
broadcast(s) ==
    /\ result[s].status = "idle"
    /\ IF ~result[s].keyed
       THEN result' = [result EXCEPT ![s].status = "returned"]
       ELSE result' \in {[result EXCEPT ![s] = r] :
               r \in Iterated([result[s] EXCEPT !.began = result[s].active,
                                               !.si_used = Cardinality(result[s].active),
                                               !.remaining = result[s].active])}
    /\ UNCHANGED <<config, evolution_sessions, running_engines, pc, engine, sent,
                   held, store, ghost>>

\* connection.send_json returns or raises, and the loop goes on to its next
\* await or to the return of broadcast
send_json(s, ok) ==
    /\ result[s].status = "sending"
    /\ LET c == result[s].current
           r == IF ok THEN [result[s] EXCEPT !.delivered = @ \cup {c}]
                ELSE [result[s] EXCEPT !.dead = @ \cup {c}]
       IN  result' \in {[result EXCEPT ![s] = n] : n \in Iterated(r)}
    /\ UNCHANGED <<config, evolution_sessions, running_engines, pc, engine, sent,
                   held, store, ghost>>

NextBroadcast ==
    \/ \E s \in Sessions, c \in WebSockets : ws_connect(s, c)
    \/ \E s \in Sessions, c \in WebSockets : ws_disconnect(s, c)
    \/ \E s \in Sessions : broadcast(s)
    \/ \E s \in Sessions, ok \in BOOLEAN : send_json(s, ok)

SpecBroadcast == InitBroadcast /\ [][NextBroadcast]_vars

\* C38: if a client connects to or disconnects from a session while the
\* broadcast for that session is suspended in a send, the broadcast still
\* completes without raising, and every connection registered when the
\* broadcast began and still registered when it ends has been sent the
\* message.
C38_BroadcastRobust ==
    \A s \in Sessions :
        result[s].status # "none" =>
            /\ result[s].status # "raised"
            /\ result[s].status = "returned"
                  => (result[s].began \cap result[s].ended) \subseteq result[s].delivered


\* ------------------------------------------------ terminal names
\* The characters of a column name: a letter, the letter x, the underscore,
\* a space and a digit.
NameChars == {"a", "x", "_", " ", "1"}
IsDigit(c) == c = "1"
IsAlnum(c) == c \in {"a", "x", "1"}

VariableNames == UNION {[1..n -> NameChars] : n \in 0..MaxNameLen}

\* ''.join(c if c.isalnum() or c == '_' else '_' for c in name), with an
\* 'x' put before a leading digit
SafeName(name) ==
    LET sanitized == [i \in 1..Len(name) |->
                         IF IsAlnum(name[i]) \/ name[i] = "_" THEN name[i] ELSE "_"]
    IN  IF Len(sanitized) > 0 /\ IsDigit(sanitized[1])
        THEN <<"x">> \o sanitized ELSE sanitized

\* GPEngine._sanitize_name
_sanitize_name(name) ==
    LET sanitized == SafeName(name)
    IN  IF sanitized = <<>> THEN <<"x">> ELSE sanitized

\* create_primitive_set: the name ARG{i} is renamed to (i counts from 0)
RenamedArgument(i, name) ==
    LET safe_name == SafeName(name)
    IN  IF safe_name = <<>> THEN <<"x", IF i = 0 THEN "0" ELSE "1">> ELSE safe_name

\* GPEngine.__init__ line 143 and create_primitive_set lines 203-211: the
\* terminal names registered for the columns passed
TerminalNames(variable_names) ==
    LET sanitized == [i \in 1..Len(variable_names) |-> _sanitize_name(variable_names[i])]
    IN  [i \in 1..Len(sanitized) |-> RenamedArgument(i - 1, sanitized[i])]

\* An engine is constructed on two columns of distinct names; the session
\* keeps the names passed and the terminal names registered.  One
\* construction is followed, from the initial state.
name_terminals(s) ==
    /\ \A t \in Sessions : result[t].status = "none"
    /\ \E variable_names \in {<<n1, n2>> : <<n1, n2>> \in
                                  {p \in VariableNames \X VariableNames : p[1] # p[2]}} :
          result' = [result EXCEPT ![s] =
                        [status |-> "named", variable_names |-> variable_names,
                         terminals |-> TerminalNames(variable_names)]]
    /\ UNCHANGED <<config, evolution_sessions, running_engines, pc, engine, sent,
                   held, store, ghost>>

NextNames == \E s \in Sessions : name_terminals(s)

SpecNames == Init /\ [][NextNames]_vars

\* C39: for any list of pairwise distinct variable_names passed to the
\* engine, the sanitized terminal names registered in the primitive set are
\* pairwise distinct.
C39_SanitizationInjective ==
    \A s \in Sessions :
        result[s].status = "named" =>
            \A i, j \in 1..Len(result[s].terminals) :
                i # j => result[s].terminals[i] # result[s].terminals[j]

====
